---------------------------- MODULE Spec2Model ----------------------------
(***************************************************************************)
(* A model of the db_model_creator_py package: the Field Validators        *)
(* (CompValue family), the ORM Components (ObjComp family), the Schema     *)
(* Entities (ORM family) and the Database aggregate with its Read()        *)
(* pipeline.                                                               *)
(*                                                                         *)
(* Python objects live in a heap (a sequence of records); a reference is   *)
(* an index into the heap and None is the reference 0.  Object identity    *)
(* matters: the CompValue classes define no __eq__, so `==` on two         *)
(* validators is Python's default identity comparison.                     *)
(***************************************************************************)
EXTENDS Integers, Sequences, FiniteSets, TLC

VARIABLES
    heap,       \* the Python heap: heap[r] is the object with reference r
    objs,       \* the objects client code constructed, in order
    dups,       \* records of the Duplicate() calls client code made
    cmp,        \* the `a == b` comparison client code evaluated last, if any
    doc,        \* the document (position in Documents) the model files hold
    colsKey,    \* the element name enclosing the columns in the XML file
    dbs,        \* the Database objects client code created
    run,        \* the Read() call in progress: its object, position and data
    CompValue_static,   \* the static fields of CompValue (the shared registry)
    raised,     \* the exception the last call raised to client code, if any
    call        \* the FromDict() or valid call client code makes, and its result

vars ==
    <<heap, objs, dups, cmp, doc, colsKey, dbs, run, CompValue_static, raised,
      call>>
objVars == <<heap, objs, dups, cmp>>
dbVars == <<doc, colsKey, dbs, run, CompValue_static, raised, call>>

(***************************************************************************)
(* Bounds of the model.                                                    *)
(***************************************************************************)
MaxObjs == 2        \* objects client code constructs directly
MaxDups == 1        \* Duplicate() calls client code makes
MaxDbs == 2         \* Database objects client code creates
MaxReads == 2       \* Read() calls client code makes on one Database
MaxParams == 2      \* parameter mappings a method mapping lists
MaxCols == 2        \* column mappings a table or view mapping lists
MaxTypeLen == 3     \* length of the text a Type validator holds

(***************************************************************************)
(* Python values that are not heap objects of the package: None, str,      *)
(* int, list and dict as json.load / yaml.safe_load / xmltodict.parse      *)
(* return them.  Every value carries its Python type in field t.           *)
(***************************************************************************)
PyNone == [t |-> "NoneType", v |-> "None"]
PyStr(s) == [t |-> "str", v |-> s]
PyInt(n) == [t |-> "int", v |-> n]
PyList(s) == [t |-> "list", v |-> s]
PyDict(f) == [t |-> "dict", v |-> f]

\* `if x:` for an Optional[str] argument: None and '' are falsy.
Truthy(x) == x.t = "str" /\ x.v # ""

\* The reference None.
None == 0

\* A new object is placed at the end of the heap; its reference is the
\* length of the heap returned.
Alloc(h, obj) == Append(h, obj)

\* Python is strict: the heap `h` one statement leaves is computed before
\* the next statement `e` is evaluated.
Then(h, e) == IF Len(h) >= 0 THEN e ELSE e

(***************************************************************************)
(* Class hierarchy: the classes `cls` is an instance of.                   *)
(***************************************************************************)
Mro(cls) ==
    CASE cls = "ORM_Table" -> {"ORM_Table", "ORM_TV", "ORM", "OBJ"}
      [] cls = "ORM_View" -> {"ORM_View", "ORM_TV", "ORM", "OBJ"}
      [] cls = "ORM_TV" -> {"ORM_TV", "ORM", "OBJ"}
      [] cls = "ORM_Column" -> {"ORM_Column", "ORM", "OBJ"}
      [] cls \in {"ObjComp_Constant", "ObjComp_Method", "ObjComp_MethodParam",
                  "ObjComp_Property"} -> {cls, "ObjComp", "OBJ"}
      [] cls \in {"CompValue_Default", "CompValue_Desc", "CompValue_Fk",
                  "CompValue_Name", "CompValue_Title", "CompValue_Type"}
            -> {cls, "CompValue", "OBJ"}
      [] OTHER -> {cls}

\* isinstance(other, self.__class__)
IsInstance(h, other, self) ==
    /\ other # None
    /\ h[self].cls \in Mro(h[other].cls)

(***************************************************************************)
(* Field Validators.  CompValue.__init__ stores the raw string.            *)
(***************************************************************************)
CompValue_init(h, cls, data) == Alloc(h, [cls |-> cls, _data |-> data])

\* CompValue_X.Duplicate(): CompValue_X(data = self.data)
CompValue_Duplicate(h, r) == CompValue_init(h, h[r].cls, h[r]._data)

\* CompValue_X.Validate(): every subclass raises UndefFuncError.
CompValue_Validate(h, r) == [raised |-> TRUE, exc |-> "UndefFuncError", value |-> FALSE]

(***************************************************************************)
(* ORM Components.                                                         *)
(* ObjComp.__init__ allocates, in this order, _default (when truthy),      *)
(* _desc, _name, _title (when truthy), _type.  The operator returns the    *)
(* heap and the five references.                                           *)
(***************************************************************************)
ObjComp_init(h, name, type_, desc, default, title) ==
    LET h1 == IF Truthy(default)
              THEN CompValue_init(h, "CompValue_Default", default.v) ELSE h
        rDefault == IF Truthy(default) THEN Len(h1) ELSE None
        h2 == CompValue_init(h1, "CompValue_Desc", desc)
        h3 == CompValue_init(h2, "CompValue_Name", name)
        h4 == IF Truthy(title)
              THEN CompValue_init(h3, "CompValue_Title", title.v) ELSE h3
        rTitle == IF Truthy(title) THEN Len(h4) ELSE None
        h5 == CompValue_init(h4, "CompValue_Type", type_)
    IN  [h |-> h5,
         f |-> [_default |-> rDefault, _desc |-> Len(h2), _name |-> Len(h3),
                _title |-> rTitle, _type |-> Len(h5)]]

ObjComp_Constant_init(h, name, type_, desc, title, default) ==
    LET New(b) ==
            Alloc(b.h, [cls |-> "ObjComp_Constant", _default |-> b.f._default,
                            _desc |-> b.f._desc, _name |-> b.f._name,
                            _title |-> b.f._title, _type |-> b.f._type])
    IN  New(ObjComp_init(h, name, type_, desc, default, PyStr(title)))

ObjComp_MethodParam_init(h, name, type_, desc, default) ==
    LET New(b) ==
            Alloc(b.h, [cls |-> "ObjComp_MethodParam", _default |-> b.f._default,
                            _desc |-> b.f._desc, _name |-> b.f._name,
                            _title |-> b.f._title, _type |-> b.f._type])
    IN  New(ObjComp_init(h, name, type_, desc, default, PyNone))

ObjComp_Property_init(h, name, type_, desc, title, default, readonly) ==
    LET New(b) ==
            Alloc(b.h, [cls |-> "ObjComp_Property", _default |-> b.f._default,
                            _desc |-> b.f._desc, _name |-> b.f._name,
                            _title |-> b.f._title, _type |-> b.f._type,
                            _readonly |-> readonly])
    IN  New(ObjComp_init(h, name, type_, desc, default, PyStr(title)))

\* `params` is the reference of the list the caller passes; it is stored
\* as given (no copy).
ObjComp_Method_init(h, name, type_, desc, title, methodtype, params, default, flag_constructor) ==
    LET New(b) ==
            Alloc(b.h, [cls |-> "ObjComp_Method", _default |-> b.f._default,
                            _desc |-> b.f._desc, _name |-> b.f._name,
                            _title |-> b.f._title, _type |-> b.f._type,
                            _flag_constructor |-> flag_constructor,
                            _method_type |-> methodtype, _params |-> params])
    IN  New(ObjComp_init(h, name, type_, desc, default, PyStr(title)))

(***************************************************************************)
(* Schema Entities.  ORM.__init__ allocates _desc, _name, _title.          *)
(***************************************************************************)
ORM_init(h, name, title, desc) ==
    LET h1 == CompValue_init(h, "CompValue_Desc", desc)
        h2 == CompValue_init(h1, "CompValue_Name", name)
        h3 == CompValue_init(h2, "CompValue_Title", title)
    IN  [h |-> h3, f |-> [_desc |-> Len(h1), _name |-> Len(h2), _title |-> Len(h3)]]

ORM_Column_init(h, name, type_, title, desc, nullable, pk, identity, fk, unique) ==
    LET b == ORM_init(h, name, title, desc)
        h1 == IF Truthy(fk) THEN CompValue_init(b.h, "CompValue_Fk", fk.v) ELSE b.h
        rFk == IF Truthy(fk) THEN Len(h1) ELSE None
    IN  Alloc(h1, [cls |-> "ORM_Column", _desc |-> b.f._desc, _name |-> b.f._name,
                   _title |-> b.f._title, _fk |-> rFk, _identity |-> identity,
                   _nullable |-> nullable, _pk |-> pk, _type |-> type_,
                   _unique |-> unique])

\* The four collections are references of lists the caller passes.
ORM_TV_init(h, name, title, desc, cols, constants, methods, props) ==
    LET New(b) ==
            Alloc(b.h, [cls |-> "ORM_TV", _desc |-> b.f._desc, _name |-> b.f._name,
                            _title |-> b.f._title, _cols |-> cols, _constants |-> constants,
                            _methods |-> methods, _props |-> props])
    IN  New(ORM_init(h, name, title, desc))

ORM_Table_init(h, name, tablename, title, desc, trigger_update, cols, constants, methods, props) ==
    LET b == ORM_init(h, name, title, desc)
        h1 == CompValue_init(b.h, "CompValue_Name", tablename)
    IN  Alloc(h1, [cls |-> "ORM_Table", _desc |-> b.f._desc, _name |-> b.f._name,
                   _title |-> b.f._title, _cols |-> cols, _constants |-> constants,
                   _methods |-> methods, _props |-> props,
                   _tablename |-> Len(h1), _trigger_update |-> trigger_update])

ORM_View_init(h, name, viewname, title, desc, cols, constants, methods, props) ==
    LET b == ORM_init(h, name, title, desc)
        h1 == CompValue_init(b.h, "CompValue_Name", viewname)
    IN  Alloc(h1, [cls |-> "ORM_View", _desc |-> b.f._desc, _name |-> b.f._name,
                   _title |-> b.f._title, _cols |-> cols, _constants |-> constants,
                   _methods |-> methods, _props |-> props, _viewname |-> Len(h1)])

\* A Python list object.
list_init(h, items) == Alloc(h, [cls |-> "list", items |-> items])


(***************************************************************************)
(* Equality, as Python evaluates `a == b` on two references.               *)
(***************************************************************************)
RECURSIVE Py_eq(_, _, _)

\* list.__eq__: same length and, position by position, the same object or
\* equal objects.
list_eq(h, a, b) ==
    /\ b # None
    /\ h[b].cls = "list"
    /\ Len(h[a].items) = Len(h[b].items)
    /\ \A i \in 1..Len(h[a].items) :
          \/ h[a].items[i] = h[b].items[i]
          \/ Py_eq(h, h[a].items[i], h[b].items[i])

\* `x in lst`: some element is x or equals x.
list_contains(h, x, items) ==
    \E i \in 1..Len(items) : items[i] = x \/ Py_eq(h, items[i], x)

\* The CompValue classes define no __eq__: object identity.
CompValue_eq(h, self, other) == self = other

ObjComp_eq(h, self, other) ==
    /\ IsInstance(h, other, self)
    /\ Py_eq(h, h[self]._name, h[other]._name)
    /\ Py_eq(h, h[self]._type, h[other]._type)
    /\ Py_eq(h, h[self]._desc, h[other]._desc)
    /\ Py_eq(h, h[self]._default, h[other]._default)
    /\ Py_eq(h, h[self]._title, h[other]._title)

ObjComp_Method_eq(h, self, other) ==
    /\ ObjComp_eq(h, self, other)
    /\ IsInstance(h, other, self)
    /\ h[self]._flag_constructor = h[other]._flag_constructor
    /\ h[self]._method_type = h[other]._method_type
    /\ Len(h[h[self]._params].items) = Len(h[h[other]._params].items)
    /\ \A i \in 1..Len(h[h[self]._params].items) :
          list_contains(h, h[h[self]._params].items[i], h[h[other]._params].items)

ObjComp_Property_eq(h, self, other) ==
    /\ ObjComp_eq(h, self, other)
    /\ IsInstance(h, other, self)
    /\ h[self]._readonly = h[other]._readonly

\* ORM.name is the string self._name.data, so names compare as strings.
ORM_eq(h, self, other) ==
    /\ IsInstance(h, other, self)
    /\ Py_eq(h, h[self]._desc, h[other]._desc)
    /\ Py_eq(h, h[self]._title, h[other]._title)
    /\ h[h[self]._name]._data = h[h[other]._name]._data

ORM_Column_eq(h, self, other) ==
    /\ ORM_eq(h, self, other)
    /\ IsInstance(h, other, self)
    /\ Py_eq(h, h[self]._fk, h[other]._fk)
    /\ h[self]._identity = h[other]._identity
    /\ h[self]._nullable = h[other]._nullable
    /\ h[self]._pk = h[other]._pk
    /\ h[self]._type = h[other]._type
    /\ h[self]._unique = h[other]._unique

ORM_TV_eq(h, self, other) ==
    /\ ORM_eq(h, self, other)
    /\ IsInstance(h, other, self)
    /\ Py_eq(h, h[self]._cols, h[other]._cols)
    /\ Py_eq(h, h[self]._constants, h[other]._constants)
    /\ Py_eq(h, h[self]._methods, h[other]._methods)
    /\ Py_eq(h, h[self]._props, h[other]._props)

ORM_Table_eq(h, self, other) ==
    /\ ORM_TV_eq(h, self, other)
    /\ IsInstance(h, other, self)
    /\ Py_eq(h, h[self]._tablename, h[other]._tablename)
    /\ h[self]._trigger_update = h[other]._trigger_update

ORM_View_eq(h, self, other) ==
    /\ ORM_TV_eq(h, self, other)
    /\ IsInstance(h, other, self)
    /\ Py_eq(h, h[self]._viewname, h[other]._viewname)

\* Dispatch of `a == b` on the class of a.
Py_eq(h, a, b) ==
    IF a = None THEN b = None
    ELSE CASE h[a].cls = "list" -> list_eq(h, a, b)
           [] h[a].cls = "ObjComp_Method" -> ObjComp_Method_eq(h, a, b)
           [] h[a].cls = "ObjComp_Property" -> ObjComp_Property_eq(h, a, b)
           [] h[a].cls \in {"ObjComp_Constant", "ObjComp_MethodParam"}
                -> ObjComp_eq(h, a, b)
           [] h[a].cls = "ORM_Column" -> ORM_Column_eq(h, a, b)
           [] h[a].cls = "ORM_TV" -> ORM_TV_eq(h, a, b)
           [] h[a].cls = "ORM_Table" -> ORM_Table_eq(h, a, b)
           [] h[a].cls = "ORM_View" -> ORM_View_eq(h, a, b)
           [] OTHER -> CompValue_eq(h, a, b)

(***************************************************************************)
(* Duplicate().  Each operator returns the heap after the call; the        *)
(* duplicate is its last object.                                           *)
(***************************************************************************)
RECURSIVE Py_Duplicate(_, _)
RECURSIVE DuplicateEach(_, _, _)

\* x.Duplicate() for each x of `items`, in order.
DuplicateEach(h, items, acc) ==
    IF items = <<>> THEN [h |-> h, refs |-> acc]
    ELSE LET h1 == Py_Duplicate(h, Head(items))
         IN  Then(h1, DuplicateEach(h1, Tail(items), Append(acc, Len(h1))))

\* A copy of the list that holds the very same element objects.
ListComp_Shallow(h, lst) == list_init(h, h[lst].items)

\* [x.Duplicate() for x in lst]: a new list of the duplicates.
ListComp_Duplicate(h, lst) ==
    LET r == DuplicateEach(h, h[lst].items, <<>>)
    IN  list_init(r.h, r.refs)

\* `v.data if v else dflt`
DataOr(h, v, dflt) == IF v # None THEN PyStr(h[v]._data) ELSE dflt

ObjComp_Constant_Duplicate(h, r) ==
    ObjComp_Constant_init(h, h[h[r]._name]._data, h[h[r]._type]._data,
        h[h[r]._desc]._data, DataOr(h, h[r]._title, PyStr("")).v,
        DataOr(h, h[r]._default, PyNone))

ObjComp_MethodParam_Duplicate(h, r) ==
    ObjComp_MethodParam_init(h, h[h[r]._name]._data, h[h[r]._type]._data,
        h[h[r]._desc]._data, DataOr(h, h[r]._default, PyNone))

ObjComp_Property_Duplicate(h, r) ==
    ObjComp_Property_init(h, h[h[r]._name]._data, h[h[r]._type]._data,
        h[h[r]._desc]._data, DataOr(h, h[r]._title, PyStr("")).v,
        DataOr(h, h[r]._default, PyNone), h[r]._readonly)

ObjComp_Method_Duplicate(h, r) ==
    LET h1 == ListComp_Duplicate(h, h[r]._params)
    IN  Then(h1, ObjComp_Method_init(h1, h[h[r]._name]._data, h[h[r]._type]._data,
            h[h[r]._desc]._data, DataOr(h, h[r]._title, PyStr("")).v,
            h[r]._method_type, Len(h1), DataOr(h, h[r]._default, PyNone),
            h[r]._flag_constructor))

ORM_Column_Duplicate(h, r) ==
    ORM_Column_init(h, h[h[r]._name]._data, h[r]._type, h[h[r]._title]._data,
        h[h[r]._desc]._data, h[r]._nullable, h[r]._pk, h[r]._identity,
        DataOr(h, h[r]._fk, PyNone), h[r]._unique)

ORM_TV_Duplicate(h, r) ==
    LET h1 == ListComp_Duplicate(h, h[r]._cols)
        h2 == ListComp_Duplicate(h1, h[r]._constants)
        h3 == ListComp_Duplicate(h2, h[r]._methods)
        h4 == ListComp_Duplicate(h3, h[r]._props)
    IN  Then(h1, Then(h2, Then(h3, Then(h4,
        ORM_TV_init(h4, h[h[r]._name]._data, h[h[r]._title]._data,
            h[h[r]._desc]._data, Len(h1), Len(h2), Len(h3), Len(h4))))))

ORM_Table_Duplicate(h, r) ==
    LET h1 == ListComp_Duplicate(h, h[r]._cols)
        h2 == ListComp_Duplicate(h1, h[r]._constants)
        h3 == ListComp_Duplicate(h2, h[r]._methods)
        h4 == ListComp_Duplicate(h3, h[r]._props)
    IN  Then(h1, Then(h2, Then(h3, Then(h4,
        ORM_Table_init(h4, h[h[r]._name]._data, h[h[r]._tablename]._data,
            h[h[r]._title]._data, h[h[r]._desc]._data, h[r]._trigger_update,
            Len(h1), Len(h2), Len(h3), Len(h4))))))

ORM_View_Duplicate(h, r) ==
    LET h1 == ListComp_Duplicate(h, h[r]._cols)
        h2 == ListComp_Duplicate(h1, h[r]._constants)
        h3 == ListComp_Duplicate(h2, h[r]._methods)
        h4 == ListComp_Duplicate(h3, h[r]._props)
    IN  Then(h1, Then(h2, Then(h3, Then(h4,
        ORM_View_init(h4, h[h[r]._name]._data, h[h[r]._viewname]._data,
            h[h[r]._title]._data, h[h[r]._desc]._data,
            Len(h1), Len(h2), Len(h3), Len(h4))))))

\* Dispatch of x.Duplicate() on the class of x.
Py_Duplicate(h, r) ==
    CASE h[r].cls = "ObjComp_Constant" -> ObjComp_Constant_Duplicate(h, r)
      [] h[r].cls = "ObjComp_MethodParam" -> ObjComp_MethodParam_Duplicate(h, r)
      [] h[r].cls = "ObjComp_Property" -> ObjComp_Property_Duplicate(h, r)
      [] h[r].cls = "ObjComp_Method" -> ObjComp_Method_Duplicate(h, r)
      [] h[r].cls = "ORM_Column" -> ORM_Column_Duplicate(h, r)
      [] h[r].cls = "ORM_TV" -> ORM_TV_Duplicate(h, r)
      [] h[r].cls = "ORM_Table" -> ORM_Table_Duplicate(h, r)
      [] h[r].cls = "ORM_View" -> ORM_View_Duplicate(h, r)
      [] OTHER -> CompValue_Duplicate(h, r)

(***************************************************************************)
(* Object graph: the references an object holds, what is reachable from    *)
(* it, and its value with every reference followed (its structure).        *)
(***************************************************************************)
IsCompValue(h, r) == "CompValue" \in Mro(h[r].cls)
IsObjComp(h, r) == "ObjComp" \in Mro(h[r].cls)
IsORM(h, r) == "ORM" \in Mro(h[r].cls)
IsORM_TV(h, r) == "ORM_TV" \in Mro(h[r].cls)

Range(s) == {s[i] : i \in 1..Len(s)}

Children(h, r) ==
    LET o == h[r]
    IN  (CASE o.cls = "list" -> Range(o.items)
           [] IsCompValue(h, r) -> {}
           [] o.cls = "ObjComp_Method"
                -> {o._default, o._desc, o._name, o._title, o._type, o._params}
           [] IsObjComp(h, r) -> {o._default, o._desc, o._name, o._title, o._type}
           [] o.cls = "ORM_Column" -> {o._desc, o._name, o._title, o._fk}
           [] o.cls = "ORM_TV"
                -> {o._desc, o._name, o._title, o._cols, o._constants,
                    o._methods, o._props}
           [] o.cls = "ORM_Table"
                -> {o._desc, o._name, o._title, o._cols, o._constants,
                    o._methods, o._props, o._tablename}
           [] o.cls = "ORM_View"
                -> {o._desc, o._name, o._title, o._cols, o._constants,
                    o._methods, o._props, o._viewname}
           [] OTHER -> {}) \ {None}

RECURSIVE Reach(_, _)
Reach(h, r) == {r} \cup UNION {Reach(h, c) : c \in Children(h, r)}

RECURSIVE DeepValue(_, _)
DeepItems(h, lst) == [i \in 1..Len(h[lst].items) |-> DeepValue(h, h[lst].items[i])]

DeepObjComp(h, r) ==
    [_default |-> DeepValue(h, h[r]._default), _desc |-> DeepValue(h, h[r]._desc),
     _name |-> DeepValue(h, h[r]._name), _title |-> DeepValue(h, h[r]._title),
     _type |-> DeepValue(h, h[r]._type)]

DeepORM(h, r) ==
    [_desc |-> DeepValue(h, h[r]._desc), _name |-> DeepValue(h, h[r]._name),
     _title |-> DeepValue(h, h[r]._title)]

\* The scalar part of a table or view: everything but its four collections.
DeepScalars(h, r) ==
    [cls |-> h[r].cls, orm |-> DeepORM(h, r),
     xname |-> IF h[r].cls = "ORM_Table" THEN DeepValue(h, h[r]._tablename)
               ELSE IF h[r].cls = "ORM_View" THEN DeepValue(h, h[r]._viewname)
               ELSE DeepValue(h, None),
     trigger |-> IF h[r].cls = "ORM_Table" THEN h[r]._trigger_update ELSE FALSE]

DeepValue(h, r) ==
    IF r = None THEN [cls |-> "NoneType"]
    ELSE LET o == h[r]
         IN  CASE o.cls = "list" -> [cls |-> "list", items |-> DeepItems(h, r)]
               [] IsCompValue(h, r) -> [cls |-> o.cls, _data |-> o._data]
               [] o.cls = "ObjComp_Method"
                    -> [cls |-> o.cls, base |-> DeepObjComp(h, r),
                        _flag_constructor |-> o._flag_constructor,
                        _method_type |-> o._method_type,
                        _params |-> DeepValue(h, o._params)]
               [] o.cls = "ObjComp_Property"
                    -> [cls |-> o.cls, base |-> DeepObjComp(h, r),
                        _readonly |-> o._readonly]
               [] IsObjComp(h, r) -> [cls |-> o.cls, base |-> DeepObjComp(h, r)]
               [] o.cls = "ORM_Column"
                    -> [cls |-> o.cls, base |-> DeepORM(h, r),
                        _fk |-> DeepValue(h, o._fk), _identity |-> o._identity,
                        _nullable |-> o._nullable, _pk |-> o._pk,
                        _type |-> o._type, _unique |-> o._unique]
               [] OTHER
                    -> [cls |-> o.cls, scalars |-> DeepScalars(h, r),
                        _cols |-> DeepValue(h, o._cols),
                        _constants |-> DeepValue(h, o._constants),
                        _methods |-> DeepValue(h, o._methods),
                        _props |-> DeepValue(h, o._props)]

(***************************************************************************)
(* Parsed documents.  A dict is a sequence of <<key, value>> pairs in      *)
(* insertion order, a list a sequence of values.                           *)
(***************************************************************************)
HasKey(d, k) == \E i \in 1..Len(d.v) : d.v[i][1] = k

\* d.get(k, dflt)
Get(d, k, dflt) ==
    IF HasKey(d, k) THEN d.v[CHOOSE i \in 1..Len(d.v) : d.v[i][1] = k][2]
    ELSE dflt

\* d[k] = x
SetKey(d, k, x) ==
    IF HasKey(d, k)
    THEN PyDict([i \in 1..Len(d.v) |->
                    IF d.v[i][1] = k THEN <<k, x>> ELSE d.v[i]])
    ELSE PyDict(Append(d.v, <<k, x>>))

(***************************************************************************)
(* The `valid` property of a component.  A call returns a boolean or       *)
(* raises; all([...]) builds its list first, evaluating the elements left  *)
(* to right, so the first exception raised by an element propagates.       *)
(***************************************************************************)
Returns(b) == [raised |-> FALSE, exc |-> "", value |-> b]

Py_all(results) ==
    IF \E i \in 1..Len(results) : results[i].raised
    THEN results[CHOOSE i \in 1..Len(results) :
                    /\ results[i].raised
                    /\ \A j \in 1..(i - 1) : ~results[j].raised]
    ELSE Returns(\A i \in 1..Len(results) : results[i].value)

\* valid_default, valid_desc, valid_name, valid_title, valid_type
ObjComp_valid(h, r) ==
    LET OrValidate(v) ==
            IF v = None THEN Returns(TRUE) ELSE CompValue_Validate(h, v)
    IN  Py_all(<<OrValidate(h[r]._default), CompValue_Validate(h, h[r]._desc),
                 CompValue_Validate(h, h[r]._name), OrValidate(h[r]._title),
                 CompValue_Validate(h, h[r]._type)>>)

\* `super().valid and all([self.valid_params])`
ObjComp_Method_valid(h, r) ==
    LET Super(s) ==
            IF s.raised \/ ~s.value THEN s
            ELSE Py_all([i \in 1..Len(h[h[r]._params].items) |->
                            ObjComp_valid(h, h[h[r]._params].items[i])])
    IN  Super(ObjComp_valid(h, r))

\* x.valid for a component x
Py_valid(h, r) ==
    IF h[r].cls = "ObjComp_Method" THEN ObjComp_Method_valid(h, r)
    ELSE ObjComp_valid(h, r)

(***************************************************************************)
(* Exceptions and results.  An exception is a record: its class, what was  *)
(* being read (kind: which check failed; what: the entity; key: the field; *)
(* index: the position reported) and, for a wrapping RuntimeError, the     *)
(* exception it wraps.  A call that may raise returns a result record.     *)
(***************************************************************************)
NoErr ==
    [exc |-> "", kind |-> "", what |-> "", key |-> "", index |-> PyNone,
     cause |-> <<>>]
Err(exc, kind, what, key) ==
    [exc |-> exc, kind |-> kind, what |-> what, key |-> key, index |-> PyNone,
     cause |-> <<>>]
ErrAt(exc, kind, what, index, cause) ==
    [exc |-> exc, kind |-> kind, what |-> what, key |-> "", index |-> index,
     cause |-> cause]

Ok(h, ref) == [ok |-> TRUE, h |-> h, ref |-> ref, err |-> NoErr]
Fail(h, e) == [ok |-> FALSE, h |-> h, ref |-> None, err |-> e]

\* The first exception raised by a sequence of checks made in order.
RECURSIVE FirstErr(_)
FirstErr(errs) ==
    IF errs = <<>> THEN NoErr
    ELSE IF Head(errs).exc # "" THEN Head(errs)
    ELSE FirstErr(Tail(errs))

\* A check of a required text field that accepts the empty string.
ReqStr_NoEmptyCheck(d, what, key) ==
    LET x == Get(d, key, PyNone)
    IN  IF x.t = "NoneType" THEN Err("ValueError", "missing", what, key)
        ELSE IF x.t # "str" THEN Err("TypeError", "type", what, key)
        ELSE NoErr

\* A required text field: missing (or None), not a str, or empty.
ReqStr(d, what, key) ==
    LET x == Get(d, key, PyNone)
    IN  IF x.t = "NoneType" THEN Err("ValueError", "missing", what, key)
        ELSE IF x.t # "str" THEN Err("TypeError", "type", what, key)
        ELSE IF x.v = "" THEN Err("ValueError", "empty", what, key)
        ELSE NoErr

\* An optional text field: when present it must be a str.
OptStr(d, what, key) ==
    IF Get(d, key, PyStr("")).t # "str"
    THEN Err("TypeError", "type", what, key) ELSE NoErr

\* `x not in ['True', 'False']`
IsFlag(x) == x.t = "str" /\ x.v \in {"True", "False"}
\* A flag read without the check.
FlagErr_Unchecked(d, what, key, dflt) == NoErr
FlagErr(d, what, key, dflt) ==
    IF IsFlag(Get(d, key, PyStr(dflt))) THEN NoErr
    ELSE Err("ValueError", "flag", what, key)

Flag(d, key, dflt) == Get(d, key, PyStr(dflt)).v = "True"

\* `x in MethodType`: MethodType(x) succeeds.
MethodTypeValues == {"class", "instance", "static"}

(***************************************************************************)
(* FromDict of the components and of a column.                             *)
(***************************************************************************)
ObjComp_Constant_FromDict(h, data) ==
    LET e == FirstErr(<<ReqStr(data, "Constant", "name"),
                        ReqStr(data, "Constant", "type_"),
                        ReqStr(data, "Constant", "desc"),
                        ReqStr(data, "Constant", "title"),
                        OptStr(data, "Constant", "default")>>)
        New(h1) == Ok(h1, Len(h1))
    IN  IF e.exc # "" THEN Fail(h, e)
        ELSE New(ObjComp_Constant_init(h, Get(data, "name", PyNone).v,
                          Get(data, "type_", PyNone).v, Get(data, "desc", PyNone).v,
                          Get(data, "title", PyNone).v, Get(data, "default", PyStr(""))))

ObjComp_MethodParam_FromDict(h, data) ==
    LET e == FirstErr(<<ReqStr(data, "Method Parameter", "name"),
                        ReqStr(data, "Method Parameter", "type_"),
                        ReqStr(data, "Method Parameter", "desc"),
                        OptStr(data, "Method Parameter", "default")>>)
        New(h1) == Ok(h1, Len(h1))
    IN  IF e.exc # "" THEN Fail(h, e)
        ELSE New(ObjComp_MethodParam_init(h, Get(data, "name", PyNone).v,
                          Get(data, "type_", PyNone).v, Get(data, "desc", PyNone).v,
                          Get(data, "default", PyStr(""))))

ObjComp_Property_FromDict(h, data) ==
    LET e == FirstErr(<<ReqStr(data, "Property", "name"),
                        ReqStr(data, "Property", "type_"),
                        ReqStr(data, "Property", "desc"),
                        ReqStr(data, "Property", "title"),
                        OptStr(data, "Property", "default"),
                        FlagErr(data, "Property", "readonly", "False")>>)
        New(h1) == Ok(h1, Len(h1))
    IN  IF e.exc # "" THEN Fail(h, e)
        ELSE New(ObjComp_Property_init(h, Get(data, "name", PyNone).v,
                          Get(data, "type_", PyNone).v, Get(data, "desc", PyNone).v,
                          Get(data, "title", PyNone).v, Get(data, "default", PyStr("")),
                          Flag(data, "readonly", "False")))

\* The parameter loop runs over the (still empty) list of built parameters,
\* not over the `params` data: no parameter is ever built, and the method
\* gets an empty list whatever the data lists.
ObjComp_Method_FromDict(h, data) ==
    LET mt == Get(data, "methodtype", PyStr("instance"))
        ps == Get(data, "params", PyNone)
        e == FirstErr(<<ReqStr(data, "Method", "name"),
                        ReqStr(data, "Method", "type_"),
                        ReqStr(data, "Method", "desc"),
                        ReqStr(data, "Method", "title"),
                        IF mt.t # "str"
                        THEN Err("TypeError", "type", "Method", "methodtype")
                        ELSE IF mt.v \notin MethodTypeValues
                        THEN Err("ValueError", "enum", "Method", "methodtype")
                        ELSE NoErr,
                        IF ps.t = "NoneType"
                        THEN Err("ValueError", "missing", "Method", "params")
                        ELSE IF ps.t # "list"
                        THEN Err("TypeError", "type", "Method", "params")
                        ELSE NoErr,
                        OptStr(data, "Method", "default"),
                        FlagErr(data, "Method", "flag_constructor", "False")>>)
        h1 == list_init(h, <<>>)
        New(h2) == Ok(h2, Len(h2))
    IN  IF e.exc # "" THEN Fail(h, e)
        ELSE New(ObjComp_Method_init(h1, Get(data, "name", PyNone).v,
                     Get(data, "type_", PyNone).v, Get(data, "desc", PyNone).v,
                     Get(data, "title", PyNone).v, mt.v, Len(h1),
                     Get(data, "default", PyStr("")),
                     Flag(data, "flag_constructor", "False")))

\* The foreign key is read from the key `title`, not `fk`: every column
\* built from data carries its title as foreign key.
ORM_Column_FromDict(h, data) ==
    LET fk == Get(data, "title", PyStr(""))
        e == FirstErr(<<ReqStr(data, "Column", "name"),
                        ReqStr(data, "Column", "type_"),
                        ReqStr(data, "Column", "title"),
                        ReqStr(data, "Column", "desc"),
                        FlagErr(data, "Column", "nullable", "True"),
                        FlagErr(data, "Column", "pk", "False"),
                        FlagErr(data, "Column", "identity", "False"),
                        FlagErr(data, "Column", "unique", "False"),
                        IF fk.t # "str"
                        THEN Err("TypeError", "type", "Column", "fk")
                        ELSE NoErr>>)
        New(h1) == Ok(h1, Len(h1))
    IN  IF e.exc # "" THEN Fail(h, e)
        ELSE New(ORM_Column_init(h, Get(data, "name", PyNone).v,
                          Get(data, "type_", PyNone).v, Get(data, "title", PyNone).v,
                          Get(data, "desc", PyNone).v, Flag(data, "nullable", "True"),
                          Flag(data, "pk", "False"), Flag(data, "identity", "False"),
                          fk, Flag(data, "unique", "False")))

(***************************************************************************)
(* FromDict of tables and views.                                           *)
(*                                                                         *)
(* The child loops are written `for i, x in children:` (no enumerate), so  *)
(* each child is itself unpacked into the pair (i, x): a two-element list  *)
(* unpacks into its elements, a dict with exactly two keys into its keys,  *)
(* anything else raises ValueError (wrong length) or TypeError (not        *)
(* iterable).  These exceptions are raised outside the try blocks.         *)
(* (A two-character str would unpack into its characters; the documents    *)
(* of this model hold no such child, and a str child has another length.)  *)
(***************************************************************************)
Unpack2(child) ==
    CASE child.t = "list" /\ Len(child.v) = 2
           -> [ok |-> TRUE, i |-> child.v[1], x |-> child.v[2], err |-> NoErr]
      [] child.t = "dict" /\ Len(child.v) = 2
           -> [ok |-> TRUE, i |-> PyStr(child.v[1][1]), x |-> PyStr(child.v[2][1]),
               err |-> NoErr]
      [] child.t \in {"list", "dict", "str"}
           -> [ok |-> FALSE, i |-> PyNone, x |-> PyNone,
               err |-> Err("ValueError", "unpack", "", "")]
      [] OTHER
           -> [ok |-> FALSE, i |-> PyNone, x |-> PyNone,
               err |-> Err("TypeError", "unpack", "", "")]

\* cls.FromDict(x) for a child of the given kind.
Child_FromDict(h, what, x) ==
    CASE what = "Column" -> ORM_Column_FromDict(h, x)
      [] what = "Constant" -> ObjComp_Constant_FromDict(h, x)
      [] what = "Method" -> ObjComp_Method_FromDict(h, x)
      [] OTHER -> ObjComp_Property_FromDict(h, x)

\* One child loop: unpack the child, require a dict, build it; a failure
\* to build is wrapped in a RuntimeError that names the index i.
RECURSIVE Children_FromDict(_, _, _, _)
Children_FromDict(h, what, children, acc) ==
    IF children = <<>> THEN [ok |-> TRUE, h |-> h, refs |-> acc, err |-> NoErr]
    ELSE LET u == Unpack2(Head(children))
             Built(r) ==
                 IF ~r.ok
                 THEN [ok |-> FALSE, h |-> h, refs |-> acc,
                       err |-> ErrAt("RuntimeError", "create", what, u.i,
                                     <<r.err>>)]
                 ELSE Children_FromDict(r.h, what, Tail(children),
                                        Append(acc, r.ref))
         IN  IF ~u.ok THEN [ok |-> FALSE, h |-> h, refs |-> acc, err |-> u.err]
             ELSE IF u.x.t # "dict"
             THEN [ok |-> FALSE, h |-> h, refs |-> acc,
                   err |-> ErrAt("TypeError", "notdict", what, u.i, <<>>)]
             ELSE Built(Child_FromDict(h, what, u.x))

\* A collection field: present, a list (for columns: not empty), and every
\* child built.  The result list is created before its elements.
Collection_FromDict(h, data, what, key, nonEmpty) ==
    LET x == Get(data, key, PyNone)
        h0 == list_init(h, <<>>)
        Built(r) ==
            IF ~r.ok THEN Fail(h, r.err)
            ELSE Ok([r.h EXCEPT ![Len(h0)].items = r.refs], Len(h0))
    IN  IF x.t = "NoneType" THEN Fail(h, Err("ValueError", "missing", what, key))
        ELSE IF x.t # "list" THEN Fail(h, Err("TypeError", "type", what, key))
        ELSE IF nonEmpty /\ Len(x.v) < 1
        THEN Fail(h, Err("ValueError", "empty", what, key))
        ELSE Built(Children_FromDict(h0, what, x.v, <<>>))

\* The four collections of a table or view, read in the order cols,
\* constants, methods, props.
Collections_FromDict(h, data) ==
    LET Props(c, k, m, p) ==
            IF ~p.ok THEN [ok |-> FALSE, h |-> h, err |-> p.err]
            ELSE [ok |-> TRUE, h |-> p.h, err |-> NoErr, cols |-> c.ref,
                  constants |-> k.ref, methods |-> m.ref, props |-> p.ref]
        Methods(c, k, m) ==
            IF ~m.ok THEN [ok |-> FALSE, h |-> h, err |-> m.err]
            ELSE Props(c, k, m,
                     Collection_FromDict(m.h, data, "Property", "props", FALSE))
        Constants(c, k) ==
            IF ~k.ok THEN [ok |-> FALSE, h |-> h, err |-> k.err]
            ELSE Methods(c, k,
                     Collection_FromDict(k.h, data, "Method", "methods", FALSE))
        Cols(c) ==
            IF ~c.ok THEN [ok |-> FALSE, h |-> h, err |-> c.err]
            ELSE Constants(c,
                     Collection_FromDict(c.h, data, "Constant", "constants",
                                         FALSE))
    IN  Cols(Collection_FromDict(h, data, "Column", "cols", TRUE))

ORM_Table_FromDict(h, data) ==
    LET tu == Get(data, "trigger_update", PyNone)
        e == FirstErr(<<ReqStr(data, "Table", "name"),
                        ReqStr(data, "Table", "tablename"),
                        ReqStr(data, "Table", "title"),
                        ReqStr(data, "Table", "desc"),
                        IF tu.t = "NoneType"
                        THEN Err("ValueError", "missing", "Table", "trigger_update")
                        ELSE IF ~IsFlag(tu)
                        THEN Err("ValueError", "flag", "Table", "trigger_update")
                        ELSE NoErr>>)
        New(h1) == Ok(h1, Len(h1))
        Built(cs) ==
            IF ~cs.ok THEN Fail(h, cs.err)
            ELSE New(ORM_Table_init(cs.h, Get(data, "name", PyNone).v,
                     Get(data, "tablename", PyNone).v,
                     Get(data, "title", PyNone).v, Get(data, "desc", PyNone).v,
                     tu.v = "True", cs.cols, cs.constants, cs.methods, cs.props))
    IN  IF e.exc # "" THEN Fail(h, e)
        ELSE Built(Collections_FromDict(h, data))

\* The view's database name is read from the key `tablename`, and the
\* constructor is called with the keyword `tablename`, which
\* ORM_View.__init__ (parameter `viewname`) does not accept: when all data
\* checks pass, the call raises TypeError.
ORM_View_FromDict(h, data) ==
    LET e == FirstErr(<<ReqStr(data, "View", "name"),
                        ReqStr(data, "View", "tablename"),
                        ReqStr(data, "View", "title"),
                        ReqStr(data, "View", "desc")>>)
        Built(cs) ==
            IF ~cs.ok THEN Fail(h, cs.err)
            ELSE Fail(h, Err("TypeError", "kwarg", "View", "tablename"))
    IN  IF e.exc # "" THEN Fail(h, e)
        ELSE Built(Collections_FromDict(h, data))

(***************************************************************************)
(* XML.  xmltodict.parse returns every text as a str and an empty element  *)
(* as None; a collection element <tables><table>..</table>..</tables>      *)
(* comes back as a dict holding the child name, whose value is a list      *)
(* when the child element repeats and the single child otherwise.          *)
(* XmlValue gives that result for the XML text of a document; the element  *)
(* enclosing the columns is named colsName.                                *)
(***************************************************************************)
XmlChildName(key) ==
    CASE key = "tables" -> "table"
      [] key = "views" -> "view"
      [] key = "cols" -> "column"
      [] key = "constants" -> "constant"
      [] key = "props" -> "prop"
      [] key = "methods" -> "method"
      [] key = "params" -> "param"
      [] OTHER -> "item"

RECURSIVE XmlValue(_, _, _)
XmlValue(key, x, colsName) ==
    CASE x.t = "str" -> IF x.v = "" THEN PyNone ELSE x
      [] x.t = "dict"
           -> PyDict([i \in 1..Len(x.v) |->
                  <<IF x.v[i][1] = "cols" THEN colsName ELSE x.v[i][1],
                    XmlValue(x.v[i][1], x.v[i][2], colsName)>>])
      [] x.t = "list"
           -> IF Len(x.v) = 0 THEN PyNone
              ELSE IF Len(x.v) = 1
              THEN PyDict(<< <<XmlChildName(key),
                               XmlValue(XmlChildName(key), x.v[1], colsName)>> >>)
              ELSE PyDict(<< <<XmlChildName(key),
                               PyList([i \in 1..Len(x.v) |->
                                   XmlValue(XmlChildName(key), x.v[i], colsName)])>> >>)
      [] OTHER -> PyNone

\* `[x]` unless x is a list already.
AsList(x) == IF x.t = "list" THEN x ELSE PyList(<<x>>)

\* Read_XML, one collection key of a table or view: replace the wrapping
\* dict by the list of its children.
Read_XML_Unwrap(tv, key2, subkey2) ==
    IF /\ HasKey(tv, key2)
       /\ Get(tv, key2, PyNone).t = "dict"
       /\ HasKey(Get(tv, key2, PyNone), subkey2)
    THEN SetKey(tv, key2, AsList(Get(Get(tv, key2, PyNone), subkey2, PyNone)))
    ELSE tv

\* Read_XML, the parameters of one method (the documents of this model
\* hold dict methods; any other method is left as it is).
Read_XML_Params(method) ==
    IF method.t = "dict" THEN Read_XML_Unwrap(method, "params", "param")
    ELSE method

\* Read_XML, the methods of a table or view: unwrapped only when wrapped,
\* and only then are the parameters of each method unwrapped.
Read_XML_Methods(tv) ==
    IF /\ HasKey(tv, "methods")
       /\ Get(tv, "methods", PyNone).t = "dict"
       /\ HasKey(Get(tv, "methods", PyNone), "method")
    THEN LET ms == AsList(Get(Get(tv, "methods", PyNone), "method", PyNone))
         IN  SetKey(tv, "methods",
                 PyList([i \in 1..Len(ms.v) |-> Read_XML_Params(ms.v[i])]))
    ELSE tv

\* Read_XML, one table or view.  The columns are looked for under the key
\* `columns`.
Read_XML_TableView(tv) ==
    IF tv.t # "dict" THEN tv
    ELSE Read_XML_Methods(
             Read_XML_Unwrap(
                 Read_XML_Unwrap(
                     Read_XML_Unwrap(tv, "columns", "column"),
                     "constants", "constant"),
                 "props", "prop"))

\* Read_XML, one of `tables` and `views`: the wrapping dict is replaced by
\* its child; the tables or views are converted only when that child is a
\* list (the child element repeats).
Read_XML_Top(data, key, subkey) ==
    IF ~(/\ Get(data, key, PyNone).t = "dict"
         /\ HasKey(Get(data, key, PyNone), subkey))
    THEN data
    ELSE LET x == Get(Get(data, key, PyNone), subkey, PyNone)
         IN  IF x.t # "list" THEN SetKey(data, key, x)
             ELSE SetKey(data, key,
                      PyList([i \in 1..Len(x.v) |-> Read_XML_TableView(x.v[i])]))

Read_XML_Convert(data) ==
    Read_XML_Top(Read_XML_Top(data, "tables", "table"), "views", "view")

(***************************************************************************)
(* Documents: what json.load / yaml.safe_load return for the model files   *)
(* the program is run on.  A canonical document lists tables, views and    *)
(* their children as dicts.  In a pair-shaped document every child of a    *)
(* table or view is a two-element list [index, child], the only form the   *)
(* child loops of FromDict unpack.                                         *)
(***************************************************************************)
ColumnDoc(name, fk) ==
    PyDict(<< <<"name", PyStr(name)>>, <<"type_", PyStr("int")>>,
              <<"title", PyStr("Column")>>, <<"desc", PyStr("A column.")>>,
              <<"pk", PyStr("True")>> >>
           \o (IF fk = "" THEN <<>> ELSE << <<"fk", PyStr(fk)>> >>))

ConstantDoc ==
    PyDict(<< <<"name", PyStr("STATUS_ACTIVE")>>, <<"type_", PyStr("str")>>,
              <<"desc", PyStr("A constant.")>>, <<"title", PyStr("Constant")>> >>)
ParamDoc ==
    PyDict(<< <<"name", PyStr("id")>>, <<"type_", PyStr("int")>>,
              <<"desc", PyStr("A parameter.")>> >>)
MethodDoc ==
    PyDict(<< <<"name", PyStr("GetStatus")>>, <<"type_", PyStr("DB_Status")>>,
              <<"desc", PyStr("A method.")>>, <<"title", PyStr("Method")>>,
              <<"methodtype", PyStr("class")>>,
              <<"params", PyList(<<ParamDoc>>)>> >>)
PropertyDoc ==
    PyDict(<< <<"name", PyStr("id")>>, <<"type_", PyStr("int")>>,
              <<"desc", PyStr("A property.")>>, <<"title", PyStr("Property")>>,
              <<"readonly", PyStr("True")>> >>)

\* [index, child] for each child, indexed from 0.
Paired(children) ==
    [i \in 1..Len(children) |-> PyList(<<PyInt(i - 1), children[i]>>)]

TableDoc(name, tablename, cols, constants, methods, props) ==
    PyDict(<< <<"name", PyStr(name)>>, <<"tablename", PyStr(tablename)>>,
              <<"title", PyStr("Table")>>, <<"desc", PyStr("A table.")>>,
              <<"trigger_update", PyStr("True")>>,
              <<"cols", PyList(cols)>>, <<"constants", PyList(constants)>>,
              <<"methods", PyList(methods)>>, <<"props", PyList(props)>> >>)

\* nameKey is `viewname`, the documented key, or `tablename`, the key
\* ORM_View.FromDict reads.
ViewDoc(name, nameKey, viewname, cols) ==
    PyDict(<< <<"name", PyStr(name)>>, <<nameKey, PyStr(viewname)>>,
              <<"title", PyStr("View")>>, <<"desc", PyStr("A view.")>>,
              <<"cols", PyList(cols)>>, <<"constants", PyList(<<>>)>>,
              <<"methods", PyList(<<>>)>>, <<"props", PyList(<<>>)>> >>)

Database_Doc(lang_db, lang_orm, tables, views) ==
    PyDict(<< <<"lang_db", lang_db>>, <<"lang_orm", lang_orm>>,
              <<"tables", PyList(tables)>>, <<"views", PyList(views)>> >>)

\* A dict without one of its keys.
WithoutKey(d, k) == PyDict(SelectSeq(d.v, LAMBDA kv : kv[1] # k))

\* Canonical tables: Statuses references Users, which is declared after it.
StatusesDoc ==
    TableDoc("DB_Status", "Statuses",
             <<ColumnDoc("status_id", ""), ColumnDoc("owner_id", "Users.user_id")>>,
             <<ConstantDoc>>, <<MethodDoc>>, <<PropertyDoc>>)
UsersDoc ==
    TableDoc("DB_User", "Users", <<ColumnDoc("user_id", "")>>, <<>>, <<>>, <<>>)
StatusViewDoc ==
    ViewDoc("DB_StatusView", "viewname", "StatusesView",
            <<ColumnDoc("status_id", "")>>)

\* Pair-shaped tables and view.
StatusesPairs ==
    TableDoc("DB_Status", "Statuses",
             Paired(<<ColumnDoc("owner_id", "Users.user_id")>>),
             Paired(<<ConstantDoc>>), Paired(<<MethodDoc>>), <<>>)
UsersPairs ==
    TableDoc("DB_User", "Users", Paired(<<ColumnDoc("user_id", "")>>),
             <<>>, <<>>, Paired(<<PropertyDoc>>))
StatusViewPairs ==
    ViewDoc("DB_StatusView", "tablename", "StatusesView",
            Paired(<<ColumnDoc("status_id", "")>>))

MSSQL == PyStr("mssql")
PYTHON_SQLALCHEMY == PyStr("python-sqlalchemy")

DocCanonical ==
    Database_Doc(MSSQL, PYTHON_SQLALCHEMY, <<StatusesDoc, UsersDoc>>,
                 <<StatusViewDoc>>)
DocOneTable ==
    Database_Doc(MSSQL, PYTHON_SQLALCHEMY, <<UsersDoc>>, <<StatusViewDoc>>)
DocNoViews ==
    Database_Doc(MSSQL, PYTHON_SQLALCHEMY, <<StatusesDoc, UsersDoc>>, <<>>)
DocNoLangOrm == WithoutKey(DocCanonical, "lang_orm")
DocBadLangDb ==
    Database_Doc(PyStr("oracle"), PYTHON_SQLALCHEMY, <<StatusesDoc, UsersDoc>>,
                 <<StatusViewDoc>>)
DocNoTables == WithoutKey(DocCanonical, "tables")
DocPairs ==
    Database_Doc(MSSQL, PYTHON_SQLALCHEMY, <<StatusesPairs, UsersPairs>>,
                 <<StatusViewPairs>>)
DocPairsSameNames ==
    Database_Doc(MSSQL, PYTHON_SQLALCHEMY, <<UsersPairs, UsersPairs>>,
                 <<StatusViewPairs>>)
DocPairsNoViews ==
    Database_Doc(MSSQL, PYTHON_SQLALCHEMY, <<StatusesPairs, UsersPairs>>, <<>>)
\* A file whose top-level value is an array, and a file that does not parse.
DocArray == PyList(<<>>)
DocUnparseable == [t |-> "unparseable", v |-> ""]

Documents ==
    <<DocCanonical, DocOneTable, DocNoViews, DocNoLangOrm, DocBadLangDb,
      DocNoTables, DocPairs, DocPairsSameNames, DocPairsNoViews, DocArray,
      DocUnparseable>>

\* The documents (by position) that are well-formed and canonical: both
\* language tags supported, at least one table and one view, every child a
\* dict with its required keys.
WellFormedDocs == {1, 2}

\* Documents an XML file can hold: no child is a bare list.
RECURSIVE XmlWritable(_)
XmlWritable(x) ==
    CASE x.t = "dict" -> \A i \in 1..Len(x.v) :
                             /\ x.v[i][2].t = "list"
                                   => \A j \in 1..Len(x.v[i][2].v) :
                                          x.v[i][2].v[j].t # "list"
                             /\ XmlWritable(x.v[i][2])
      [] x.t = "list" -> \A i \in 1..Len(x.v) : XmlWritable(x.v[i])
      [] OTHER -> TRUE

(***************************************************************************)
(* The Database aggregate.                                                 *)
(*                                                                         *)
(* A Database record holds the fields of the Python object (underscored)   *)
(* and, for the properties below, what is known of its last Read(): how    *)
(* many Read() calls returned or raised (reads), whether the last one      *)
(* returned normally (ok), the exception it raised (err) and the fields    *)
(* the object had when it was called (pre).                                *)
(***************************************************************************)
\* File names, as their '.'-separated parts: model.json, model.xml,
\* model.yaml, model.yml and json.
FileNames ==
    << <<"model", "json">>, <<"model", "xml">>, <<"model", "yaml">>,
       <<"model", "yml">>, <<"json">> >>

FileTypeValues == {"json", "xml", "yaml"}
LangDbValues == {"mssql"}
LangOrmValues == {"python-sqlalchemy"}

\* The FileType whose value equals file_name.split('.')[-1]; "" when none.
FileTypeOf(file_name) ==
    IF file_name[Len(file_name)] \in FileTypeValues
    THEN file_name[Len(file_name)] ELSE ""

Fields(db) ==
    [_lang_db |-> db._lang_db, _lang_orm |-> db._lang_orm,
     _tables |-> db._tables, _views |-> db._views]

Database_new(file_name) ==
    [_file_name |-> file_name, _file_type |-> FileTypeOf(file_name),
     _lang_db |-> PyNone, _lang_orm |-> PyNone, _tables |-> <<>>, _views |-> <<>>,
     reads |-> 0, ok |-> FALSE, err |-> NoErr,
     pre |-> [_lang_db |-> PyNone, _lang_orm |-> PyNone, _tables |-> <<>>,
              _views |-> <<>>]]

\* No Read() is in progress.
Idle == [db |-> 0, pc |-> "idle", data |-> PyNone, i |-> 0]

\* No call was made.  A call is made on a class (cls) and names the
\* member read (op); where the outcome depends on the interpreter, build
\* is the interpreter it ran on.  A call that returns an object gives its
\* reference, a call that returns a boolean or a text its value.
NoCall ==
    [cls |-> "", op |-> "", build |-> "", data |-> PyNone, done |-> FALSE,
     ok |-> FALSE, ref |-> None, value |-> PyNone]

\* CompValue.lang_db, lang_orm, tables, views as the class body sets them.
\* tables and views name the list they refer to: 0 is the class's own empty
\* list, k > 0 the list held by the k-th Database.
CompValue_static_init ==
    [lang_db |-> PyNone, lang_orm |-> PyNone, tables |-> 0, views |-> 0]

\* Database.__eq__
Database_eq(h, self, other) ==
    /\ self._lang_db = other._lang_db
    /\ self._lang_orm = other._lang_orm
    /\ Len(self._tables) = Len(other._tables)
    /\ Len(self._views) = Len(other._views)
    /\ \A i \in 1..Len(self._tables) :
          list_contains(h, self._tables[i], other._tables)
    /\ \A i \in 1..Len(self._views) :
          list_contains(h, self._views[i], other._views)

\* Database.Validate()
Database_Validate(db) == [raised |-> TRUE, exc |-> "UndefFuncError", value |-> FALSE]

\* Database(file_name): the object exists only when the extension names a
\* FileType; otherwise FileTypeError is raised.
Database_init ==
    /\ run.pc = "idle"
    /\ Len(dbs) < MaxDbs
    /\ \E n \in 1..Len(FileNames) :
          IF FileTypeOf(FileNames[n]) = ""
          THEN /\ raised' = Err("FileTypeError", "extension", "Database", "")
               /\ UNCHANGED dbs
          ELSE /\ dbs' = Append(dbs, Database_new(FileNames[n]))
               /\ raised' = NoErr
    /\ UNCHANGED <<call, doc, colsKey, run, CompValue_static>>
    /\ UNCHANGED objVars

\* The running Read() raises e: the call is over.
Raise(k, e, newdbs) ==
    /\ dbs' = [newdbs EXCEPT ![k].reads = @ + 1, ![k].ok = FALSE, ![k].err = e]
    /\ run' = Idle
    /\ raised' = e

\* The running Read() returns.
Return(k, newdbs) ==
    /\ dbs' = [newdbs EXCEPT ![k].reads = @ + 1, ![k].ok = TRUE, ![k].err = NoErr]
    /\ run' = Idle
    /\ raised' = NoErr

\* Read() up to the first setter: `parsed` is what the parser returned.
\* A file that is missing or does not parse raises ReadError; a parsed
\* value without .get raises AttributeError.
Read_Begin(k, parsed) ==
    LET newdbs == [dbs EXCEPT ![k].pre = Fields(dbs[k])]
    IN  IF parsed.t = "unparseable"
        THEN Raise(k, Err("ReadError", "parse", "Database", ""), newdbs)
        ELSE IF parsed.t # "dict"
        THEN Raise(k, Err("AttributeError", "get", "Database", ""), newdbs)
        ELSE /\ dbs' = newdbs
             /\ run' = [db |-> k, pc |-> "SetLangDb", data |-> parsed, i |-> 0]
             /\ raised' = NoErr

CanRead(k, file_type) ==
    /\ run.pc = "idle"
    /\ dbs[k]._file_type = file_type
    /\ dbs[k].reads < MaxReads

Read_JSON(k) ==
    /\ CanRead(k, "json")
    /\ Read_Begin(k, Documents[doc])
    /\ UNCHANGED <<call, doc, colsKey, CompValue_static>>
    /\ UNCHANGED objVars

Read_YAML(k) ==
    /\ CanRead(k, "yaml")
    /\ Read_Begin(k, Documents[doc])
    /\ UNCHANGED <<call, doc, colsKey, CompValue_static>>
    /\ UNCHANGED objVars

\* The XML file holds the document when XML can express it; there is no
\* such file otherwise.
Read_XML(k) ==
    /\ CanRead(k, "xml")
    /\ IF ~XmlWritable(Documents[doc]) \/ Documents[doc].t = "unparseable"
       THEN Read_Begin(k, DocUnparseable)
       ELSE LET data == XmlValue("database", Documents[doc], colsKey)
            IN  Read_Begin(k, IF data.t = "dict" THEN Read_XML_Convert(data)
                              ELSE data)
    /\ UNCHANGED <<call, doc, colsKey, CompValue_static>>
    /\ UNCHANGED objVars

\* SetLangDb / SetLangOrm: the checks on the value read.
SetLang_Err(val, what, key, values) ==
    IF val.t = "NoneType" THEN Err("ValueError", "missing", what, key)
    ELSE IF val.t # "str" THEN Err("TypeError", "type", what, key)
    ELSE IF val.v \notin values THEN Err("ValueError", "enum", what, key)
    ELSE NoErr

\* self.SetLangDb(data.get('lang_db', None))
Database_SetLangDb ==
    /\ run.pc = "SetLangDb"
    /\ LET val == Get(run.data, "lang_db", PyNone)
           e == SetLang_Err(val, "Database", "lang_db", LangDbValues)
       IN  IF e.exc # "" THEN Raise(run.db, e, dbs)
           ELSE /\ dbs' = [dbs EXCEPT ![run.db]._lang_db = val]
                /\ run' = [run EXCEPT !.pc = "SetLangOrm"]
                /\ UNCHANGED raised
    /\ UNCHANGED <<call, doc, colsKey, CompValue_static>>
    /\ UNCHANGED objVars

\* self.SetLangOrm(data.get('lang_orm', None))
Database_SetLangOrm ==
    /\ run.pc = "SetLangOrm"
    /\ LET val == Get(run.data, "lang_orm", PyNone)
           e == SetLang_Err(val, "Database", "lang_orm", LangOrmValues)
       IN  IF e.exc # "" THEN Raise(run.db, e, dbs)
           ELSE /\ dbs' = [dbs EXCEPT ![run.db]._lang_orm = val]
                /\ run' = [run EXCEPT !.pc = "SetTables"]
                /\ UNCHANGED raised
    /\ UNCHANGED <<call, doc, colsKey, CompValue_static>>
    /\ UNCHANGED objVars

\* SetTables / SetViews: the checks made before the loop.
SetList_Err(val, what, key) ==
    IF val.t = "NoneType" THEN Err("ValueError", "missing", what, key)
    ELSE IF val.t # "list" THEN Err("TypeError", "type", what, key)
    ELSE IF Len(val.v) < 1 THEN Err("ValueError", "count", what, key)
    ELSE NoErr

\* self.SetTables(data.get('tables', None)), up to the loop.
Database_SetTables ==
    /\ run.pc = "SetTables"
    /\ LET e == SetList_Err(Get(run.data, "tables", PyNone), "Database", "tables")
       IN  IF e.exc # "" THEN Raise(run.db, e, dbs)
           ELSE /\ run' = [run EXCEPT !.pc = "SetTables_loop", !.i = 1]
                /\ UNCHANGED <<dbs, raised>>
    /\ UNCHANGED <<call, doc, colsKey, CompValue_static>>
    /\ UNCHANGED objVars

\* One iteration of the loop of SetTables: table number run.i (index
\* run.i - 1) is built and appended to self._tables.  After the last table
\* SetTables returns and Read goes on to the views.
Database_SetTables_loop ==
    /\ run.pc = "SetTables_loop"
    /\ LET val == Get(run.data, "tables", PyNone)
           table == val.v[run.i]
           Built(r) ==
               IF ~r.ok
               THEN /\ Raise(run.db, ErrAt("RuntimeError", "create", "Table",
                                           PyInt(run.i - 1), <<r.err>>), dbs)
                    /\ UNCHANGED heap
               ELSE /\ heap' = r.h
                    /\ dbs' = [dbs EXCEPT ![run.db]._tables = Append(@, r.ref)]
                    /\ run' = IF run.i = Len(val.v)
                              THEN [run EXCEPT !.pc = "SetViews", !.i = 0]
                              ELSE [run EXCEPT !.i = @ + 1]
                    /\ UNCHANGED raised
       IN  IF table.t # "dict"
           THEN /\ Raise(run.db, ErrAt("TypeError", "notdict", "Table",
                                       PyInt(run.i - 1), <<>>), dbs)
                /\ UNCHANGED heap
           ELSE Built(ORM_Table_FromDict(heap, table))
    /\ UNCHANGED <<call, doc, colsKey, CompValue_static>>
    /\ UNCHANGED <<objs, dups, cmp>>

\* self.SetViews(data.get('views', None)), up to the loop.
Database_SetViews ==
    /\ run.pc = "SetViews"
    /\ LET e == SetList_Err(Get(run.data, "views", PyNone), "Database", "views")
       IN  IF e.exc # "" THEN Raise(run.db, e, dbs)
           ELSE /\ run' = [run EXCEPT !.pc = "SetViews_loop", !.i = 1]
                /\ UNCHANGED <<dbs, raised>>
    /\ UNCHANGED <<call, doc, colsKey, CompValue_static>>
    /\ UNCHANGED objVars

\* One iteration of the loop of SetViews.  After the last view SetViews
\* returns, and with it Read.
Database_SetViews_loop ==
    /\ run.pc = "SetViews_loop"
    /\ LET val == Get(run.data, "views", PyNone)
           view == val.v[run.i]
           Appended(ref) == [dbs EXCEPT ![run.db]._views = Append(@, ref)]
           Built(r) ==
               IF ~r.ok
               THEN /\ Raise(run.db, ErrAt("RuntimeError", "create", "View",
                                           PyInt(run.i - 1), <<r.err>>), dbs)
                    /\ UNCHANGED heap
               ELSE /\ heap' = r.h
                    /\ IF run.i = Len(val.v)
                       THEN Return(run.db, Appended(r.ref))
                       ELSE /\ dbs' = Appended(r.ref)
                            /\ run' = [run EXCEPT !.i = @ + 1]
                            /\ UNCHANGED raised
       IN  IF view.t # "dict"
           THEN /\ Raise(run.db, ErrAt("TypeError", "notdict", "View",
                                       PyInt(run.i - 1), <<>>), dbs)
                /\ UNCHANGED heap
           ELSE Built(ORM_View_FromDict(heap, view))
    /\ UNCHANGED <<call, doc, colsKey, CompValue_static>>
    /\ UNCHANGED <<objs, dups, cmp>>

\* Client code calls CompValue.LoadData with the fields of a Database it
\* holds.  Nothing in the package calls it.
CompValue_LoadData(k) ==
    /\ run.pc = "idle"
    /\ CompValue_static' =
          [lang_db |-> dbs[k]._lang_db, lang_orm |-> dbs[k]._lang_orm,
           tables |-> k, views |-> k]
    /\ UNCHANGED <<call, doc, colsKey, dbs, run, raised>>
    /\ UNCHANGED objVars

\* The lists the registry refers to.
CompValue_tables == IF CompValue_static.tables = 0 THEN <<>>
                    ELSE dbs[CompValue_static.tables]._tables
CompValue_views == IF CompValue_static.views = 0 THEN <<>>
                   ELSE dbs[CompValue_static.views]._views

Init ==
    /\ heap = <<>>
    /\ objs = <<>>
    /\ dups = <<>>
    /\ cmp = <<>>
    /\ doc \in 1..Len(Documents)
    /\ colsKey \in {"cols", "columns"}
    /\ dbs = <<>>
    /\ run = Idle
    /\ CompValue_static = CompValue_static_init
    /\ raised = NoErr
    /\ call = NoCall

Next ==
    \/ Database_init
    \/ \E k \in 1..Len(dbs) : Read_JSON(k)
    \/ \E k \in 1..Len(dbs) : Read_XML(k)
    \/ \E k \in 1..Len(dbs) : Read_YAML(k)
    \/ Database_SetLangDb
    \/ Database_SetLangOrm
    \/ Database_SetTables
    \/ Database_SetTables_loop
    \/ Database_SetViews
    \/ Database_SetViews_loop
    \/ \E k \in 1..Len(dbs) : CompValue_LoadData(k)

Spec == Init /\ [][Next]_vars

(***************************************************************************)
(* Objects client code builds through the constructors, written as the     *)
(* constructor calls with their arguments (a cut-down Statuses table of    *)
(* the kind the reading test builds).                                      *)
(***************************************************************************)
ParamId ==
    [cls |-> "ObjComp_MethodParam", name |-> "id", type_ |-> "int",
     desc |-> "ID of the new Status.", default |-> PyNone]
ParamName ==
    [cls |-> "ObjComp_MethodParam", name |-> "name", type_ |-> "str",
     desc |-> "Name of the new Status.", default |-> PyStr("active")]
ConstActive ==
    [cls |-> "ObjComp_Constant", name |-> "STATUS_ACTIVE", type_ |-> "str",
     desc |-> "Name of the active status.", title |-> "Active Status",
     default |-> PyNone]
ConstArchived ==
    [cls |-> "ObjComp_Constant", name |-> "STATUS_ARCHIVED", type_ |-> "str",
     desc |-> "Name of the archived status.", title |-> "",
     default |-> PyStr("archived")]
MethodCtor ==
    [cls |-> "ObjComp_Method", name |-> "DB_Status", type_ |-> "None",
     desc |-> "Creates a new row object.", title |-> "Constructor",
     methodtype |-> "instance", params |-> <<ParamId, ParamName>>,
     default |-> PyNone, flag_constructor |-> TRUE]
PropId ==
    [cls |-> "ObjComp_Property", name |-> "id", type_ |-> "int",
     desc |-> "ID of the current status.", title |-> "Status ID",
     default |-> PyNone, readonly |-> TRUE]
ColId ==
    [cls |-> "ORM_Column", name |-> "status_id", type_ |-> "tinyint",
     title |-> "Primary Key ID", desc |-> "Primary Key ID for the Status.",
     nullable |-> TRUE, pk |-> TRUE, identity |-> TRUE, fk |-> PyNone,
     unique |-> FALSE]
ColOwner ==
    [cls |-> "ORM_Column", name |-> "owner_id", type_ |-> "int",
     title |-> "Owner", desc |-> "The user owning the status.",
     nullable |-> FALSE, pk |-> FALSE, identity |-> FALSE,
     fk |-> PyStr("Users.user_id"), unique |-> TRUE]
TableStatus ==
    [cls |-> "ORM_Table", name |-> "DB_Status", tablename |-> "Statuses",
     title |-> "Statuses Table", desc |-> "All statuses.",
     trigger_update |-> TRUE, cols |-> <<ColId, ColOwner>>,
     constants |-> <<ConstActive, ConstArchived>>, methods |-> <<MethodCtor>>,
     props |-> <<PropId>>]
\* The same table with its constants listed in the other order.
TableStatus_ConstantsSwapped ==
    [TableStatus EXCEPT !.constants = <<ConstArchived, ConstActive>>]
\* The same table with its columns listed in the other order.
TableStatus_ColsSwapped == [TableStatus EXCEPT !.cols = <<ColOwner, ColId>>]
ViewStatus ==
    [cls |-> "ORM_View", name |-> "DB_StatusView", viewname |-> "StatusesView",
     title |-> "Statuses View", desc |-> "All statuses.",
     cols |-> <<ColId>>, constants |-> <<>>, methods |-> <<>>, props |-> <<>>]
NameStatus == [cls |-> "CompValue_Name", data |-> "Statuses"]

Blueprints ==
    <<NameStatus, TableStatus, TableStatus_ConstantsSwapped,
      TableStatus_ColsSwapped, ViewStatus>>

RECURSIVE Build(_, _)
RECURSIVE BuildEach(_, _, _)

\* The elements of a list literal are constructed left to right.
BuildEach(h, bps, acc) ==
    IF bps = <<>> THEN [h |-> h, refs |-> acc]
    ELSE LET h1 == Build(h, Head(bps))
         IN  Then(h1, BuildEach(h1, Tail(bps), Append(acc, Len(h1))))

BuildList(h, bps) ==
    LET r == BuildEach(h, bps, <<>>)
    IN  list_init(r.h, r.refs)

\* The constructor call a blueprint stands for; arguments are evaluated
\* before the constructor body runs.
Build(h, bp) ==
    CASE bp.cls = "ObjComp_MethodParam"
           -> ObjComp_MethodParam_init(h, bp.name, bp.type_, bp.desc, bp.default)
      [] bp.cls = "ObjComp_Constant"
           -> ObjComp_Constant_init(h, bp.name, bp.type_, bp.desc, bp.title,
                                    bp.default)
      [] bp.cls = "ObjComp_Property"
           -> ObjComp_Property_init(h, bp.name, bp.type_, bp.desc, bp.title,
                                    bp.default, bp.readonly)
      [] bp.cls = "ObjComp_Method"
           -> LET h1 == BuildList(h, bp.params)
              IN  Then(h1,
                  ObjComp_Method_init(h1, bp.name, bp.type_, bp.desc, bp.title,
                      bp.methodtype, Len(h1), bp.default, bp.flag_constructor))
      [] bp.cls = "ORM_Column"
           -> ORM_Column_init(h, bp.name, bp.type_, bp.title, bp.desc,
                  bp.nullable, bp.pk, bp.identity, bp.fk, bp.unique)
      [] bp.cls = "ORM_Table"
           -> LET h1 == BuildList(h, bp.cols)
                  h2 == BuildList(h1, bp.constants)
                  h3 == BuildList(h2, bp.methods)
                  h4 == BuildList(h3, bp.props)
              IN  Then(h1, Then(h2, Then(h3, Then(h4,
                  ORM_Table_init(h4, bp.name, bp.tablename, bp.title, bp.desc,
                      bp.trigger_update, Len(h1), Len(h2), Len(h3), Len(h4))))))
      [] bp.cls = "ORM_View"
           -> LET h1 == BuildList(h, bp.cols)
                  h2 == BuildList(h1, bp.constants)
                  h3 == BuildList(h2, bp.methods)
                  h4 == BuildList(h3, bp.props)
              IN  Then(h1, Then(h2, Then(h3, Then(h4,
                  ORM_View_init(h4, bp.name, bp.viewname, bp.title, bp.desc,
                      Len(h1), Len(h2), Len(h3), Len(h4))))))
      [] OTHER -> CompValue_init(h, bp.cls, bp.data)

(***************************************************************************)
(* Client code working on entities: it constructs objects, duplicates      *)
(* them, changes objects it reaches through a duplicate, and compares.     *)
(***************************************************************************)
InitObj ==
    /\ heap = <<>>
    /\ objs = <<>>
    /\ dups = <<>>
    /\ cmp = <<>>
    /\ doc = 1
    /\ colsKey = "cols"
    /\ dbs = <<>>
    /\ run = Idle
    /\ CompValue_static = CompValue_static_init
    /\ raised = NoErr
    /\ call = NoCall

\* Constructions are independent of one another, so the model lets client
\* code build its objects in the order of the blueprint list.
Construct ==
    /\ cmp = <<>>
    /\ Len(objs) < MaxObjs
    /\ \E i \in 1..Len(Blueprints) :
          /\ objs # <<>> => i >= objs[Len(objs)].bp
          /\ heap' = Build(heap, Blueprints[i])
          /\ objs' = Append(objs, [ref |-> Len(heap'), bp |-> i])
    /\ UNCHANGED <<dups, cmp>>
    /\ UNCHANGED dbVars

\* d = x.Duplicate() for an object x client code constructed.
Duplicate ==
    /\ cmp = <<>>
    /\ Len(dups) < MaxDups
    /\ \E i \in 1..Len(objs) :
          /\ heap' = Py_Duplicate(heap, objs[i].ref)
          /\ dups' = Append(dups, [orig |-> objs[i].ref, dup |-> Len(heap'),
                                   snap |-> DeepValue(heap, objs[i].ref),
                                   mutated |-> FALSE])
    /\ UNCHANGED <<objs, cmp>>
    /\ UNCHANGED dbVars

\* An in-place change of one object: a validator gets other data, a list
\* loses its last element (or gains one when empty), an entity or component
\* with a boolean flag gets the flag inverted.
HasFlag(h, r) ==
    h[r].cls \in {"ObjComp_Method", "ObjComp_Property", "ORM_Column", "ORM_Table"}

MutateObj(h, r) ==
    LET o == h[r]
    IN  CASE o.cls = "list"
               -> [h EXCEPT ![r].items =
                       IF o.items = <<>> THEN <<None>>
                       ELSE SubSeq(o.items, 1, Len(o.items) - 1)]
          [] IsCompValue(h, r) -> [h EXCEPT ![r]._data = "changed"]
          [] o.cls = "ObjComp_Method"
               -> [h EXCEPT ![r]._flag_constructor = ~o._flag_constructor]
          [] o.cls = "ObjComp_Property"
               -> [h EXCEPT ![r]._readonly = ~o._readonly]
          [] o.cls = "ORM_Column" -> [h EXCEPT ![r]._pk = ~o._pk]
          [] o.cls = "ORM_Table"
               -> [h EXCEPT ![r]._trigger_update = ~o._trigger_update]
          [] OTHER -> h

\* Client code changes one object it reaches through a duplicate; the model
\* follows a single such change.
Mutate ==
    /\ cmp = <<>>
    /\ \A j \in 1..Len(dups) : ~dups[j].mutated
    /\ \E k \in 1..Len(dups) :
          /\ \E r \in Reach(heap, dups[k].dup) :
                /\ (HasFlag(heap, r) \/ IsCompValue(heap, r) \/ heap[r].cls = "list")
                /\ heap' = MutateObj(heap, r)
          /\ dups' = [dups EXCEPT ![k].mutated = TRUE]
    /\ UNCHANGED <<objs, cmp>>
    /\ UNCHANGED dbVars

\* The objects client code holds a name for.
Held == {objs[i].ref : i \in 1..Len(objs)} \cup {dups[k].dup : k \in 1..Len(dups)}

\* Client code evaluates a == b, on objects as they were constructed or
\* duplicated.  A scenario ends with its comparison: what client code could
\* do afterwards it can do from the same heap without comparing first.
Compare ==
    /\ cmp = <<>>
    /\ \A j \in 1..Len(dups) : ~dups[j].mutated
    /\ \E a \in Held : \E b \in Held :
          cmp' = <<[a |-> a, b |-> b, res |-> Py_eq(heap, a, b)]>>
    /\ UNCHANGED <<heap, objs, dups>>
    /\ UNCHANGED dbVars

NextObj == Construct \/ Duplicate \/ Mutate \/ Compare

SpecObj == InitObj /\ [][NextObj]_vars

(***************************************************************************)
(* Client code calling FromDict() on one class with one mapping.  The      *)
(* mapping is a canonical mapping of the class, or one in which a single   *)
(* key was removed or given another value.                                 *)
(***************************************************************************)
ParamNames == <<"id", "name", "flag", "size">>
ColNames == <<"status_id", "owner_id", "user_id", "code">>
NameAt(names, i) == names[((i - 1) % Len(names)) + 1]

\* n parameter mappings, all valid, with different names.
ParamDocs(n) ==
    [i \in 1..n |-> SetKey(ParamDoc, "name", PyStr(NameAt(ParamNames, i)))]

\* n column mappings; the one at position bad (if any) has no name, so
\* that it cannot be built.
ColumnDocs(n, bad) ==
    [i \in 1..n |->
        IF i = bad THEN WithoutKey(ColumnDoc(NameAt(ColNames, i), ""), "name")
        ELSE ColumnDoc(NameAt(ColNames, i), "")]

\* all <<n, bad>> with 1 <= n <= MaxCols and 0 <= bad <= n, in order
ColumnShapes ==
    [j \in 1..(MaxCols * (MaxCols + 1)) |->
        <<((j - 1) \div (MaxCols + 1)) + 1, (j - 1) % (MaxCols + 1)>>]

\* The classes and canonical mappings FromDict is called with.
FromDictBases ==
    << [cls |-> "ObjComp_Constant", data |-> ConstantDoc],
       [cls |-> "ObjComp_MethodParam", data |-> ParamDoc],
       [cls |-> "ObjComp_Property", data |-> PropertyDoc],
       [cls |-> "ObjComp_Method", data |-> MethodDoc],
       [cls |-> "ORM_Column", data |-> ColumnDoc("status_id", "")],
       [cls |-> "ORM_Column", data |-> ColumnDoc("owner_id", "Users.user_id")],
       [cls |-> "ORM_Table", data |-> StatusesDoc],
       [cls |-> "ORM_Table", data |-> StatusesPairs],
       [cls |-> "ORM_View", data |-> StatusViewDoc],
       [cls |-> "ORM_View", data |-> StatusViewPairs] >>

FromDictKeys ==
    <<"name", "type_", "desc", "title", "default", "readonly", "methodtype",
      "params", "flag_constructor", "nullable", "pk", "identity", "unique",
      "fk", "tablename", "viewname", "trigger_update", "cols", "constants",
      "methods", "props">>

\* The values a key is given.
FromDictValues ==
    <<PyNone, PyStr(""), PyInt(1), PyStr("True"), PyStr("False"),
      PyStr("yes"), PyStr("static"), PyStr("Users.user_id"), PyList(<<>>)>>
    \o [n \in 1..MaxParams |-> PyList(ParamDocs(n))]
    \o [j \in 1..Len(ColumnShapes) |->
           PyList(ColumnDocs(ColumnShapes[j][1], ColumnShapes[j][2]))]
    \o [j \in 1..Len(ColumnShapes) |->
           PyList(Paired(ColumnDocs(ColumnShapes[j][1], ColumnShapes[j][2])))]

\* The mapping d with key number k removed (v = 0) or given value number v;
\* k = 0 leaves the mapping as it is.
Vary(d, k, v) ==
    IF k = 0 THEN d
    ELSE IF v = 0 THEN WithoutKey(d, FromDictKeys[k])
    ELSE SetKey(d, FromDictKeys[k], FromDictValues[v])

\* cls.FromDict(data)
Class_FromDict(h, cls, data) ==
    CASE cls = "ObjComp_Constant" -> ObjComp_Constant_FromDict(h, data)
      [] cls = "ObjComp_MethodParam" -> ObjComp_MethodParam_FromDict(h, data)
      [] cls = "ObjComp_Property" -> ObjComp_Property_FromDict(h, data)
      [] cls = "ObjComp_Method" -> ObjComp_Method_FromDict(h, data)
      [] cls = "ORM_Column" -> ORM_Column_FromDict(h, data)
      [] cls = "ORM_Table" -> ORM_Table_FromDict(h, data)
      [] OTHER -> ORM_View_FromDict(h, data)

InitFromDict ==
    /\ heap = <<>>
    /\ objs = <<>>
    /\ dups = <<>>
    /\ cmp = <<>>
    /\ doc = 1
    /\ colsKey = "cols"
    /\ dbs = <<>>
    /\ run = Idle
    /\ CompValue_static = CompValue_static_init
    /\ raised = NoErr
    /\ \E b \in 1..Len(FromDictBases), k \in 0..Len(FromDictKeys),
          v \in 0..Len(FromDictValues) :
           call = [NoCall EXCEPT !.cls = FromDictBases[b].cls,
                                 !.data = Vary(FromDictBases[b].data, k, v)]

\* The call returns the object it built, or raises.
FromDict ==
    /\ call.cls # ""
    /\ ~call.done
    /\ LET Returned(r) ==
               /\ heap' = r.h
               /\ raised' = r.err
               /\ call' = [call EXCEPT !.op = "FromDict", !.done = TRUE,
                                       !.ok = r.ok, !.ref = r.ref]
       IN  Returned(Class_FromDict(heap, call.cls, call.data))
    /\ UNCHANGED <<objs, dups, cmp, doc, colsKey, dbs, run, CompValue_static>>

NextFromDict == FromDict

SpecFromDict == InitFromDict /\ [][NextFromDict]_vars

(***************************************************************************)
(* The Type validator of the db_model_creator package (Value_Type).        *)
(*                                                                         *)
(* A text is a sequence of pieces: a blank, a comma, or a word without     *)
(* blanks and commas.  Two adjacent words read as one longer word, which   *)
(* is neither of them.                                                     *)
(***************************************************************************)
TypePieces == {" ", ",", "int", "Foo"}
Text(s) == [t |-> "text", v |-> s]
PyBool(b) == [t |-> "bool", v |-> b]

\* str.strip()
RECURSIVE StripLeft(_)
StripLeft(s) == IF s # <<>> /\ Head(s) = " " THEN StripLeft(Tail(s)) ELSE s

RECURSIVE StripRight(_)
StripRight(s) ==
    IF s # <<>> /\ s[Len(s)] = " " THEN StripRight(SubSeq(s, 1, Len(s) - 1))
    ELSE s

\* A strip that removes nothing.
Py_nostrip(s) == s

Py_strip(s) == StripRight(StripLeft(s))

\* str.split(sep)
RECURSIVE Py_split_on(_, _)
Py_split_on(s, sep) ==
    IF \A i \in 1..Len(s) : s[i] # sep THEN <<s>>
    ELSE LET i == CHOOSE k \in 1..Len(s) :
                      s[k] = sep /\ \A j \in 1..(k - 1) : s[j] # sep
         IN  <<SubSeq(s, 1, i - 1)>>
                 \o Py_split_on(SubSeq(s, i + 1, Len(s)), sep)

\* str.split(',')
Py_split(s) == Py_split_on(s, ",")

\* The values of the members of the enumeration TYPES_PYTHON3.
TYPES_PYTHON3 ==
    {"bool", "bytes", "bytearray", "typing.Callable", "complex", "typing.Dict",
     "float", "typing.FrozenSet", "int", "typing.List", "memoryview", "None",
     "typing.Optional", "range", "typing.Set", "str", "typing.Tuple", "type",
     "typing.Union"}

\* The static name lists; update_static, which would fill them, raises
\* NotImplementedError.
Value_Type_TABLE_NAMES == <<>>
Value_Type_VIEW_NAMES == <<>>

\* `w in TYPES_PYTHON3` for a str w.  On an Enum class this depends on the
\* interpreter: up to 3.7 it is False for every non-member (with a
\* warning), from 3.8 to 3.11 it raises TypeError, and from 3.12 it is
\* True when w is the value of a member.
PythonBuilds == {"3.7", "3.11", "3.12"}
Enum_contains(build, w) ==
    CASE build = "3.7" -> Returns(FALSE)
      [] build = "3.11" -> [raised |-> TRUE, exc |-> "TypeError", value |-> FALSE]
      [] OTHER -> Returns(Len(w) = 1 /\ w[1] \in TYPES_PYTHON3)

\* The loop over the references: it returns False at the first reference
\* that IS a language type or a table or view name.
RECURSIVE Value_Type_valid_loop(_, _)
Value_Type_valid_loop(build, refs) ==
    IF refs = <<>> THEN Returns(TRUE)
    ELSE LET type_str == Py_strip(Head(refs))
             Known(c) ==
                 IF c.raised THEN c
                 ELSE IF \/ c.value
                         \/ \E i \in 1..Len(Value_Type_TABLE_NAMES) :
                               Value_Type_TABLE_NAMES[i] = type_str
                         \/ \E i \in 1..Len(Value_Type_VIEW_NAMES) :
                               Value_Type_VIEW_NAMES[i] = type_str
                 THEN Returns(FALSE)
                 ELSE Value_Type_valid_loop(build, Tail(refs))
         IN  Known(Enum_contains(build, type_str))

Value_Type_valid(build, data) ==
    IF Len(Py_strip(data)) = 0 THEN Returns(TRUE)
    ELSE Value_Type_valid_loop(build, Py_split(Py_strip(data)))

\* The prefixes of the names of the ORM classes.
Database_PREFIX_TABLENAME == "DB_"
Database_PREFIX_VIEWNAME == "VW_"

\* f'{TYPES_PYTHON3.UNION}': a member of a plain Enum formats as its
\* qualified name, not as its value.
Enum_format(member) == "TYPES_PYTHON3." \o member

InSeq(x, s) == \E i \in 1..Len(s) : s[i] = x

\* value_to_string_python3(val)
Value_to_string_python3(build, val) ==
    LET Known(c) ==
            IF c.raised THEN c
            ELSE IF c.value THEN Returns(val)
            ELSE IF InSeq(val, Value_Type_TABLE_NAMES)
            THEN Returns(<<"'", Database_PREFIX_TABLENAME>> \o val \o <<"'">>)
            ELSE IF InSeq(val, Value_Type_VIEW_NAMES)
            THEN Returns(<<"'", Database_PREFIX_VIEWNAME>> \o val \o <<"'">>)
            ELSE Returns(<<"\"">> \o val \o <<"\"">>)
    IN  Known(Enum_contains(build, val))

\* ', '.join([value_to_string_python3(val.strip()) for val in refs])
RECURSIVE Value_Type_join(_, _)
Value_Type_join(build, refs) ==
    LET First(f) ==
            IF f.raised \/ Len(refs) = 1 THEN f
            ELSE LET Rest(r) ==
                         IF r.raised THEN r
                         ELSE Returns(f.value \o <<", ">> \o r.value)
                 IN  Rest(Value_Type_join(build, Tail(refs)))
    IN  First(Value_to_string_python3(build, Py_strip(Head(refs))))

Value_Type_value(build, data) ==
    LET d == Py_strip(data)
        Joined(j) ==
            IF j.raised THEN j
            ELSE IF Len(Py_split(d)) > 1
            THEN Returns(<<Enum_format("UNION"), "[">> \o j.value \o <<"]">>)
            ELSE j
    IN  IF Len(d) = 0 THEN Returns(<<"None">>)
        ELSE Joined(Value_Type_join(build, Py_split(d)))

(***************************************************************************)
(* The Name and Foreign-Key validators of the two packages.  The pieces of *)
(* a name text: a blank, a letter, a digit, an underscore, another sign;   *)
(* those of a foreign-key text: a blank, a period, two names.              *)
(***************************************************************************)
NamePieces == {" ", "a", "2", "_", "-"}
FkPieces == {" ", ".", "T", "c"}

\* re.search("^[a-zA-Z_][a-zA-Z0-9_]*$", s) is not None
Regex_name(s) ==
    /\ Len(s) >= 1
    /\ s[1] \in {"a", "_"}
    /\ \A i \in 2..Len(s) : s[i] \in {"a", "2", "_"}

Value_Name_valid(data) == Returns(Regex_name(Py_strip(data)))

\* Value_Name.value and Value_Fk.value
Value_value(data) == Returns(Py_strip(data))

\* Two period-separated parts are required; whether they name a table and
\* a column is not checked: the property raises instead.
Value_Fk_valid(data) ==
    IF Len(Py_split_on(Py_strip(data), ".")) # 2 THEN Returns(FALSE)
    ELSE [raised |-> TRUE, exc |-> "NotImplementedError", value |-> FALSE]

\* The validator classes, the pieces of their texts, and the members read.
ValueClasses ==
    {"Value_Type", "Value_Name", "Value_Fk", "CompValue_Name", "CompValue_Fk"}

PiecesOf(cls) ==
    CASE cls = "Value_Type" -> TypePieces
      [] cls \in {"Value_Name", "CompValue_Name"} -> NamePieces
      [] OTHER -> FkPieces

\* x.valid for the db_model_creator classes, x.Validate() for the
\* db_model_creator_py classes.
Class_valid(cls, build, data) ==
    CASE cls = "Value_Type" -> Value_Type_valid(build, data)
      [] cls = "Value_Name" -> Value_Name_valid(data)
      [] cls = "Value_Fk" -> Value_Fk_valid(data)
      [] OTHER -> [raised |-> TRUE, exc |-> "UndefFuncError", value |-> FALSE]

\* x.value
Class_value(cls, build, data) ==
    IF cls = "Value_Type" THEN Value_Type_value(build, data)
    ELSE Value_value(data)

InitType ==
    /\ heap = <<>>
    /\ objs = <<>>
    /\ dups = <<>>
    /\ cmp = <<>>
    /\ doc = 1
    /\ colsKey = "cols"
    /\ dbs = <<>>
    /\ run = Idle
    /\ CompValue_static = CompValue_static_init
    /\ raised = NoErr
    /\ \E cls \in ValueClasses : \E n \in 0..MaxTypeLen :
           \E s \in [1..n -> PiecesOf(cls)] :
               call = [NoCall EXCEPT !.cls = cls, !.data = Text(s)]

\* Client code reads `valid` of (calls Validate() on) a validator holding
\* the text.
Valid ==
    /\ call.cls \in ValueClasses
    /\ ~call.done
    /\ \E build \in PythonBuilds :
           LET Returned(r) ==
                   /\ raised' = IF r.raised
                                THEN Err(r.exc, "valid", call.cls, "")
                                ELSE NoErr
                   /\ call' = [call EXCEPT !.op = "valid", !.build = build,
                                           !.done = TRUE, !.ok = ~r.raised,
                                           !.value = IF r.raised THEN PyNone
                                                     ELSE PyBool(r.value)]
           IN  Returned(Class_valid(call.cls, build, call.data.v))
    /\ UNCHANGED <<heap, objs, dups, cmp, doc, colsKey, dbs, run,
                   CompValue_static>>

\* Client code reads `value` of a db_model_creator validator holding the
\* text.
Value ==
    /\ call.cls \in {"Value_Type", "Value_Name", "Value_Fk"}
    /\ ~call.done
    /\ \E build \in PythonBuilds :
           LET Returned(r) ==
                   /\ raised' = IF r.raised
                                THEN Err(r.exc, "value", call.cls, "")
                                ELSE NoErr
                   /\ call' = [call EXCEPT !.op = "value", !.build = build,
                                           !.done = TRUE, !.ok = ~r.raised,
                                           !.value = IF r.raised THEN PyNone
                                                     ELSE Text(r.value)]
           IN  Returned(Class_value(call.cls, build, call.data.v))
    /\ UNCHANGED <<heap, objs, dups, cmp, doc, colsKey, dbs, run,
                   CompValue_static>>

NextType == Valid \/ Value

SpecType == InitType /\ [][NextType]_vars

(***************************************************************************)
(* Database(file_name) on its own: a file name is drawn as its             *)
(* '.'-separated parts (an empty part stands for a leading, trailing or    *)
(* doubled period) and the constructor is applied to it.                   *)
(***************************************************************************)
MaxNameParts == 3
FileNameParts == {"", "model", "json", "xml", "yaml", "yml", "JSON"}

InitFileName ==
    /\ heap = <<>>
    /\ objs = <<>>
    /\ dups = <<>>
    /\ cmp = <<>>
    /\ doc = 1
    /\ colsKey = "cols"
    /\ dbs = <<>>
    /\ run = Idle
    /\ CompValue_static = CompValue_static_init
    /\ raised = NoErr
    /\ \E n \in 1..MaxNameParts : \E s \in [1..n -> FileNameParts] :
           call = [NoCall EXCEPT !.cls = "Database", !.data = Text(s)]

\* Client code calls Database(file_name).
Database_construct ==
    /\ call.cls = "Database"
    /\ ~call.done
    /\ LET file_name == call.data.v
           found == FileTypeOf(file_name) # ""
       IN  /\ IF found
              THEN /\ dbs' = Append(dbs, Database_new(file_name))
                   /\ raised' = NoErr
              ELSE /\ raised' = Err("FileTypeError", "extension", "Database", "")
                   /\ UNCHANGED dbs
           /\ call' = [call EXCEPT !.op = "__init__", !.done = TRUE,
                                   !.ok = found,
                                   !.ref = IF found THEN Len(dbs) + 1 ELSE None]
    /\ UNCHANGED <<heap, objs, dups, cmp, doc, colsKey, run, CompValue_static>>

NextFileName == Database_construct

SpecFileName == InitFileName /\ [][NextFileName]_vars

(***************************************************************************)
(* Client code comparing Databases whose fields it has assigned, as the    *)
(* test module builds its target: two tables and a view are constructed,   *)
(* and each of two Databases gets language tags, a list of these tables    *)
(* and a list of the view.                                                 *)
(***************************************************************************)
MaxEntities == 2

HeapOneTable == Build(<<>>, TableStatus)
HeapTwoTables == Build(HeapOneTable, TableStatus_ColsSwapped)
HeapEntities == Build(HeapTwoTables, ViewStatus)
TableRefs == {Len(HeapOneTable), Len(HeapTwoTables)}
ViewRefs == {Len(HeapEntities)}

\* The lists of at most MaxEntities elements of the set.
ListsOver(S) == UNION {[1..n -> S] : n \in 0..MaxEntities}

Database_assigned(lang_db, tables, views) ==
    [Database_new(<<"model", "json">>)
        EXCEPT !._lang_db = lang_db, !._lang_orm = PYTHON_SQLALCHEMY,
               !._tables = tables, !._views = views]

InitEq ==
    /\ heap = HeapEntities
    /\ objs = <<>>
    /\ dups = <<>>
    /\ cmp = <<>>
    /\ doc = 1
    /\ colsKey = "cols"
    /\ run = Idle
    /\ CompValue_static = CompValue_static_init
    /\ raised = NoErr
    /\ call = NoCall
    /\ \E la \in {PyNone, MSSQL} :
       \E ta \in ListsOver(TableRefs) : \E tb \in ListsOver(TableRefs) :
       \E va \in ListsOver(ViewRefs) : \E vb \in ListsOver(ViewRefs) :
           dbs = <<Database_assigned(la, ta, va),
                   Database_assigned(MSSQL, tb, vb)>>

\* Client code evaluates a == b and b == a on two Databases (or on one).
Database_Compare ==
    /\ cmp = <<>>
    /\ \E a \in 1..Len(dbs) : \E b \in 1..Len(dbs) :
          cmp' = <<[a |-> a, b |-> b,
                    res |-> Database_eq(heap, dbs[a], dbs[b]),
                    rev |-> Database_eq(heap, dbs[b], dbs[a])]>>
    /\ UNCHANGED <<heap, objs, dups>>
    /\ UNCHANGED dbVars

NextEq == Database_Compare

SpecEq == InitEq /\ [][NextEq]_vars

(***************************************************************************)
(* Properties of Database.Read().                                          *)
(***************************************************************************)
\* The k-th Database has made a Read() call that is over.
ReadOver(k) == dbs[k].reads > 0 /\ run.db # k

\* C1: for the three supported formats, Read() on files that encode the
\* same well-formed schema yields aggregates that are equal: each Read()
\* succeeds, and two Databases read from files of different formats have
\* the same language tags, tables and views.
C1_FormatsYieldEqualAggregates ==
    \A i \in 1..Len(dbs) : \A j \in 1..Len(dbs) :
        (/\ doc \in WellFormedDocs
         /\ dbs[i]._file_type # dbs[j]._file_type
         /\ ReadOver(i) /\ ReadOver(j))
        => /\ dbs[i].ok /\ dbs[j].ok
           /\ Database_eq(heap, dbs[i], dbs[j])
           /\ Database_eq(heap, dbs[j], dbs[i])

\* The model of a canonical document built directly through the entity
\* constructors, as the reading test writes its target model.
TargetColumn(name, fk) ==
    [cls |-> "ORM_Column", name |-> name, type_ |-> "int", title |-> "Column",
     desc |-> "A column.", nullable |-> TRUE, pk |-> TRUE, identity |-> FALSE,
     fk |-> IF fk = "" THEN PyNone ELSE PyStr(fk), unique |-> FALSE]
TargetConstant ==
    [cls |-> "ObjComp_Constant", name |-> "STATUS_ACTIVE", type_ |-> "str",
     desc |-> "A constant.", title |-> "Constant", default |-> PyNone]
TargetParam ==
    [cls |-> "ObjComp_MethodParam", name |-> "id", type_ |-> "int",
     desc |-> "A parameter.", default |-> PyNone]
TargetMethod ==
    [cls |-> "ObjComp_Method", name |-> "GetStatus", type_ |-> "DB_Status",
     desc |-> "A method.", title |-> "Method", methodtype |-> "class",
     params |-> <<TargetParam>>, default |-> PyNone,
     flag_constructor |-> FALSE]
TargetProperty ==
    [cls |-> "ObjComp_Property", name |-> "id", type_ |-> "int",
     desc |-> "A property.", title |-> "Property", default |-> PyNone,
     readonly |-> TRUE]
TargetStatuses ==
    [cls |-> "ORM_Table", name |-> "DB_Status", tablename |-> "Statuses",
     title |-> "Table", desc |-> "A table.", trigger_update |-> TRUE,
     cols |-> <<TargetColumn("status_id", ""),
                TargetColumn("owner_id", "Users.user_id")>>,
     constants |-> <<TargetConstant>>, methods |-> <<TargetMethod>>,
     props |-> <<TargetProperty>>]
TargetUsers ==
    [cls |-> "ORM_Table", name |-> "DB_User", tablename |-> "Users",
     title |-> "Table", desc |-> "A table.", trigger_update |-> TRUE,
     cols |-> <<TargetColumn("user_id", "")>>, constants |-> <<>>,
     methods |-> <<>>, props |-> <<>>]
TargetStatusView ==
    [cls |-> "ORM_View", name |-> "DB_StatusView", viewname |-> "StatusesView",
     title |-> "View", desc |-> "A view.",
     cols |-> <<TargetColumn("status_id", "")>>, constants |-> <<>>,
     methods |-> <<>>, props |-> <<>>]

\* The target model of each well-formed canonical document.
TARGET_MODEL ==
    <<[_lang_db |-> MSSQL, _lang_orm |-> PYTHON_SQLALCHEMY,
       _tables |-> <<TargetStatuses, TargetUsers>>,
       _views |-> <<TargetStatusView>>],
      [_lang_db |-> MSSQL, _lang_orm |-> PYTHON_SQLALCHEMY,
       _tables |-> <<TargetUsers>>, _views |-> <<TargetStatusView>>]>>

\* The database name of a table or view.
DbName(h, r) ==
    IF h[r].cls = "ORM_Table" THEN h[h[r]._tablename]._data
    ELSE h[h[r]._viewname]._data

\* Some target of the list, built through its constructor, has the
\* database name of entity r and compares equal to it.
MatchesTarget(h, r, targets) ==
    \E j \in 1..Len(targets) :
        LET h1 == Build(h, targets[j])
        IN  /\ DbName(h1, Len(h1)) = DbName(h1, r)
            /\ Py_eq(h1, r, Len(h1))

\* C2: for every well-formed canonical document Read() succeeds, the
\* language tags and the numbers of tables and views are those of the
\* document, and every table and view compares equal to the entity of the
\* same database name built directly through the constructors.
C2_ReadBuildsTargetModel ==
    \A k \in 1..Len(dbs) :
        (doc \in WellFormedDocs /\ ReadOver(k))
        => /\ dbs[k].ok
           /\ dbs[k]._lang_db = TARGET_MODEL[doc]._lang_db
           /\ dbs[k]._lang_orm = TARGET_MODEL[doc]._lang_orm
           /\ Len(dbs[k]._tables) = Len(TARGET_MODEL[doc]._tables)
           /\ Len(dbs[k]._views) = Len(TARGET_MODEL[doc]._views)
           /\ \A i \in 1..Len(dbs[k]._tables) :
                 MatchesTarget(heap, dbs[k]._tables[i],
                               TARGET_MODEL[doc]._tables)
           /\ \A i \in 1..Len(dbs[k]._views) :
                 MatchesTarget(heap, dbs[k]._views[i],
                               TARGET_MODEL[doc]._views)

\* The database names a document declares for its tables and views.
DeclaredNames(data, key, nameKey) ==
    LET x == Get(data, key, PyNone)
    IN  IF x.t # "list" THEN {}
        ELSE {Get(x.v[i], nameKey, PyNone).v :
                 i \in {n \in 1..Len(x.v) : x.v[n].t = "dict"}}

\* The database names the shared registry holds.
RegisteredNames ==
    {DbName(heap, r) : r \in Range(CompValue_tables) \cup Range(CompValue_views)}

\* C3: in every Read() the database names of all declared tables and views
\* are in the shared registry before the first entity is built, and a
\* document whose column refers to a table declared after it is read
\* successfully.
C3_NamesRegisteredBeforeBuild ==
    /\ run.pc = "SetTables_loop"
       => (DeclaredNames(run.data, "tables", "tablename")
           \cup DeclaredNames(run.data, "views", "viewname"))
          \subseteq RegisteredNames
    /\ \A k \in 1..Len(dbs) :
          (Documents[doc] = DocCanonical /\ ReadOver(k)) => dbs[k].ok

\* C4: a Read() that fails leaves _tables, _views, _lang_db and _lang_orm
\* as they were before the call.
C4_FailedReadLeavesNothing ==
    \A k \in 1..Len(dbs) :
        (ReadOver(k) /\ ~dbs[k].ok) => Fields(dbs[k]) = dbs[k].pre

\* The document declares zero views.
ZeroViews(d) ==
    /\ d.t = "dict"
    /\ Get(d, "views", PyNone).t = "list"
    /\ Len(Get(d, "views", PyNone).v) = 0

\* The file of the k-th Database holds the document (an XML file exists
\* only for a document XML can express).
FileHoldsDoc(k) ==
    dbs[k]._file_type = "xml" => XmlWritable(Documents[doc])

\* C5: reading a document with zero views fails with the count error of
\* the views, and when it is raised no table has been built or appended.
C5_ZeroViewsFailsBeforeTables ==
    \A k \in 1..Len(dbs) :
        (ZeroViews(Documents[doc]) /\ FileHoldsDoc(k) /\ ReadOver(k))
        => /\ ~dbs[k].ok
           /\ dbs[k].err.exc = "ValueError"
           /\ dbs[k].err.key = "views"
           /\ dbs[k]._tables = dbs[k].pre._tables

\* The validators owned by the tables and views of a Database, their
\* columns and their components.
Validators(db) ==
    {v \in UNION {Reach(heap, r) : r \in Range(db._tables) \cup Range(db._views)} :
        IsCompValue(heap, v)}

\* v.Validate() returns True.
IsValid(v) ==
    /\ ~CompValue_Validate(heap, v).raised
    /\ CompValue_Validate(heap, v).value

\* Read() has built and appended every table of the document to the k-th
\* Database: it is at the views, or it has returned.
TablesRead(k) ==
    \/ run.db = k /\ run.pc \in {"SetViews", "SetViews_loop"}
    \/ ReadOver(k) /\ dbs[k].ok

C1_TwoFormatsRead ==
    \E i \in 1..Len(dbs) : \E j \in 1..Len(dbs) :
        /\ doc \in WellFormedDocs
        /\ dbs[i]._file_type = "json" /\ dbs[j]._file_type = "xml"
        /\ ReadOver(i) /\ ReadOver(j)

\* C2, the case the property is about: the YAML file of the canonical
\* document with two tables has been read.
C2_CanonicalRead ==
    \E k \in 1..Len(dbs) :
        /\ Documents[doc] = DocCanonical
        /\ dbs[k]._file_type = "yaml"
        /\ ReadOver(k)

\* C3, the case the property is about: Read() is about to build the first
\* table of a document whose first table refers to the second.
C3_AboutToBuildForwardReference ==
    /\ Documents[doc] = DocCanonical
    /\ run.pc = "SetTables_loop"
    /\ run.i = 1

\* C4, the case the property is about: a Read() failed after its first
\* setter had run.
C4_ReadFailedAtLangOrm ==
    \E k \in 1..Len(dbs) :
        ReadOver(k) /\ ~dbs[k].ok /\ dbs[k].err.key = "lang_orm"

\* C5, the case the property is about: the count error of the views was
\* raised for a document with zero views.
C5_ZeroViewsCountError ==
    \E k \in 1..Len(dbs) :
        /\ ZeroViews(Documents[doc]) /\ FileHoldsDoc(k) /\ ReadOver(k)
        /\ dbs[k].err.kind = "count" /\ dbs[k].err.key = "views"

XmlRead == run.pc # "idle" /\ dbs[run.db]._file_type = "xml"

\* The children the document lists under one of its keys.
Declared(d, key) ==
    IF Get(d, key, PyNone).t = "list" THEN Get(d, key, PyNone).v ELSE <<>>

\* No collection of a normalised table or view is left wrapped in a dict.
ChildListsNormalised(tv) ==
    /\ tv.t = "dict"
    /\ \A key2 \in {"constants", "props", "methods"} :
          Get(tv, key2, PyNone).t \in {"list", "NoneType"}

\* C11: when the XML document holds exactly one <table> under <tables> (one
\* <view> under <views>), the normalised value of `tables` (`views`) is a
\* one-element sequence whose element has its child lists normalised.
C11_XmlSingleChildIsSequence ==
    XmlRead =>
        \A key \in {"tables", "views"} :
            Len(Declared(Documents[doc], key)) = 1
            => /\ Get(run.data, key, PyNone).t = "list"
               /\ Len(Get(run.data, key, PyNone).v) = 1
               /\ ChildListsNormalised(Get(run.data, key, PyNone).v[1])

\* C11, the case the property is about: the XML file of a document with
\* exactly one table and one view has been parsed and normalised.
C11_XmlOneTableParsed ==
    /\ XmlRead
    /\ Len(Declared(Documents[doc], "tables")) = 1
    /\ Len(Declared(Documents[doc], "views")) = 1

\* The tables or views of the normalised document, in document order (a
\* single one that was left as a mapping is taken as it is).
Normalised(key) ==
    LET x == Get(run.data, key, PyNone)
    IN  IF x.t = "list" THEN x.v ELSE <<x>>

Built(cls) == call.done /\ call.cls = cls /\ call.ok

\* ps is a list of mappings each of which builds a MethodParameter.
ValidParams(ps) ==
    /\ ps.t = "list"
    /\ \A i \in 1..Len(ps.v) :
          /\ ps.v[i].t = "dict"
          /\ ObjComp_MethodParam_FromDict(<<>>, ps.v[i]).ok

\* C13: a Method built by FromDict from a mapping whose `params` list holds
\* n valid parameter mappings owns exactly n MethodParameter objects, one
\* per mapping, in the same order.
C13_MethodOwnsItsParams ==
    Built("ObjComp_Method") =>
        LET ps == Get(call.data, "params", PyNone)
            items == heap[heap[call.ref]._params].items
        IN  ValidParams(ps) =>
                /\ Len(items) = Len(ps.v)
                /\ \A i \in 1..Len(ps.v) :
                      /\ heap[items[i]].cls = "ObjComp_MethodParam"
                      /\ heap[heap[items[i]]._name]._data
                             = Get(ps.v[i], "name", PyNone).v

\* A method was built from a mapping that lists MaxParams valid parameters.
C13_MethodWithParamsBuilt ==
    /\ Built("ObjComp_Method")
    /\ ValidParams(Get(call.data, "params", PyNone))
    /\ Len(Get(call.data, "params", PyNone).v) = MaxParams

\* C14: a Column built by FromDict from a mapping without `fk` has no
\* Foreign-Key validator, and one built from a mapping with `fk: "T.c"` has
\* a Foreign-Key validator holding exactly "T.c", whatever its title.
C14_ColumnFkFromFkKey ==
    Built("ORM_Column") =>
        LET fk == Get(call.data, "fk", PyNone)
            c == heap[call.ref]
        IN  /\ ~HasKey(call.data, "fk") => c._fk = None
            /\ Truthy(fk) => (c._fk # None /\ heap[c._fk]._data = fk.v)

\* A column was built from a mapping without `fk`, and one from a mapping
\* whose `fk` differs from its title.
C14_ColumnBuiltWithoutFk ==
    /\ Built("ORM_Column")
    /\ ~HasKey(call.data, "fk")
    /\ Truthy(Get(call.data, "title", PyNone))

\* d carries name, viewname, title and desc as non-empty strings, the four
\* collections of the canonical view, and no tablename.
CanonicalViewMapping(d) ==
    /\ \A key \in {"name", "viewname", "title", "desc"} :
          ReqStr(d, "View", key) = NoErr
    /\ \A key \in {"cols", "constants", "methods", "props"} :
          /\ Get(d, key, PyNone).t = "list"
          /\ Get(d, key, PyNone) = Get(StatusViewDoc, key, PyNone)
    /\ ~HasKey(d, "tablename")

\* C15: View.FromDict on a mapping carrying name, viewname, title, desc,
\* cols, constants, methods and props (and no tablename) succeeds, and the
\* View's database-side name is the `viewname` value.
C15_ViewBuiltFromViewname ==
    (call.done /\ call.cls = "ORM_View" /\ CanonicalViewMapping(call.data)) =>
        /\ call.ok
        /\ heap[heap[call.ref]._viewname]._data
               = Get(call.data, "viewname", PyNone).v

\* View.FromDict returned or raised on a canonical view mapping.
C15_CanonicalViewMappingRead ==
    call.done /\ call.cls = "ORM_View" /\ CanonicalViewMapping(call.data)

\* The keys among name, type_, desc, title that the class's FromDict
\* requires, and all the text keys it requires.
RequiredKeys(cls) ==
    CASE cls = "ObjComp_MethodParam" -> {"name", "type_", "desc"}
      [] cls \in {"ORM_Table", "ORM_View"} -> {"name", "title", "desc"}
      [] OTHER -> {"name", "type_", "desc", "title"}
RequiredTextKeys(cls) ==
    IF cls \in {"ORM_Table", "ORM_View"}
    THEN RequiredKeys(cls) \cup {"tablename"} ELSE RequiredKeys(cls)

\* The key is absent from the mapping, is not a string, or is empty.
BadText(d, key) ==
    \/ ~HasKey(d, key)
    \/ Get(d, key, PyNone).t # "str"
    \/ Get(d, key, PyNone).v = ""

\* The call raised the error of a required-key check on one of the keys.
RaisedOnKey(keys) ==
    /\ ~call.ok
    /\ raised.exc \in {"ValueError", "TypeError"}
    /\ raised.kind \in {"missing", "type", "empty"}
    /\ raised.key \in keys

\* C16: FromDict fails with an error naming a bad required key whenever one
\* of the required keys (name, type_, desc, and title where the class
\* requires it) is absent, not a string or empty; and it does not fail on
\* those grounds when every one of them is a non-empty string.
C16_RequiredKeysChecked ==
    call.done =>
        LET bad == {key \in RequiredKeys(call.cls) : BadText(call.data, key)}
            badText == {key \in RequiredTextKeys(call.cls) :
                           BadText(call.data, key)}
        IN  /\ bad # {} => RaisedOnKey(badText)
            /\ bad = {} => ~RaisedOnKey(RequiredKeys(call.cls))

\* FromDict rejected a column mapping whose type_ is the empty string.
C16_EmptyRequiredKeyRejected ==
    /\ call.done
    /\ call.cls = "ORM_Column"
    /\ Get(call.data, "type_", PyNone).t = "str"
    /\ Get(call.data, "type_", PyNone).v = ""
    /\ RaisedOnKey({"type_"})

\* The boolean-like keys of a class: <<key, field, default>>.
FlagKeys(cls) ==
    CASE cls = "ObjComp_Property" -> {<<"readonly", "_readonly", FALSE>>}
      [] cls = "ObjComp_Method"
           -> {<<"flag_constructor", "_flag_constructor", FALSE>>}
      [] cls = "ORM_Column"
           -> {<<"nullable", "_nullable", TRUE>>, <<"pk", "_pk", FALSE>>,
               <<"identity", "_identity", FALSE>>,
               <<"unique", "_unique", FALSE>>}
      [] OTHER -> {}

\* The value is one of the literal strings "True" and "False".
IsTrueFalse(x) == x.t = "str" /\ (x.v = "True" \/ x.v = "False")

C18_FailingChildIndexReported ==
    \A n \in 1..MaxCols : \A bad \in 1..n :
        LET children == PyList(ColumnDocs(n, bad))
        IN  (/\ call.done
             /\ \/ /\ call.cls = "ORM_Table"
                   /\ call.data = SetKey(StatusesDoc, "cols", children)
                \/ /\ call.cls = "ObjComp_Method"
                   /\ call.data = SetKey(MethodDoc, "params", children))
            => /\ ~call.ok
               /\ raised.index.t = "int"
               /\ raised.index.v = bad - 1

\* Table.FromDict was called on a table mapping whose last column mapping
\* has no name.
C18_TableWithBadColumnRead ==
    /\ call.done
    /\ call.cls = "ORM_Table"
    /\ call.data = SetKey(StatusesDoc, "cols",
                          PyList(ColumnDocs(MaxCols, MaxCols)))

(***************************************************************************)
(* Properties of `valid`.                                                  *)
(***************************************************************************)
\* The Field Validators a component owns.
OwnedValidators(h, r) ==
    {h[r]._name, h[r]._type, h[r]._desc, h[r]._default, h[r]._title} \ {None}

\* C19: `valid` of a component returns a boolean, the AND of the validity
\* of every Field Validator the component owns and, for a Method, of the
\* validity of every parameter.
C19_ValidIsConjunction ==
    \A r \in 1..Len(heap) :
        IsObjComp(heap, r) =>
            /\ ~Py_valid(heap, r).raised
            /\ Py_valid(heap, r).value
                   = (/\ \A v \in OwnedValidators(heap, r) : IsValid(v)
                      /\ heap[r].cls = "ObjComp_Method" =>
                             \A i \in 1..Len(heap[heap[r]._params].items) :
                                \A v \in OwnedValidators(heap,
                                           heap[heap[r]._params].items[i]) :
                                    IsValid(v))

\* Client code holds a Method that owns a parameter and a title.
C19_MethodWithParamHeld ==
    \E r \in 1..Len(heap) :
        /\ heap[r].cls = "ObjComp_Method"
        /\ heap[r]._title # None
        /\ Len(heap[heap[r]._params].items) >= 1

\* The references of a text: its comma-separated parts, trimmed.
TypeReferences(data) ==
    LET parts == Py_split(Py_strip(data))
    IN  {Py_strip(parts[i]) : i \in 1..Len(parts)}

\* A reference resolves: it is a primitive type of the language or the
\* name of a registered table or view.
Resolves(ref) ==
    \/ Len(ref) = 1 /\ ref[1] \in TYPES_PYTHON3
    \/ \E i \in 1..Len(Value_Type_TABLE_NAMES) : Value_Type_TABLE_NAMES[i] = ref
    \/ \E i \in 1..Len(Value_Type_VIEW_NAMES) : Value_Type_VIEW_NAMES[i] = ref

\* C20: a Type validator is valid iff its trimmed text is empty or every
\* comma-separated, trimmed reference in it is a primitive type of the
\* language or the name of a registered table or view.
C20_TypeValidIffReferencesResolve ==
    (call.done /\ call.cls = "Value_Type" /\ call.op = "valid") =>
        /\ call.ok
        /\ call.value.t = "bool"
        /\ call.value.v
               = (\/ Py_strip(call.data.v) = <<>>
                  \/ \A ref \in TypeReferences(call.data.v) : Resolves(ref))

\* `valid` was read on a text with two references, one of them `int`.
C20_TwoReferencesValidated ==
    /\ call.done
    /\ call.cls = "Value_Type"
    /\ call.op = "valid"
    /\ Cardinality(TypeReferences(call.data.v)) = 2
    /\ <<"int">> \in TypeReferences(call.data.v)

(***************************************************************************)
(* Properties of Value_Type.value.                                         *)
(***************************************************************************)
\* Client code has read the member op of an object of the class.
MemberRead(cls, op) == call.done /\ call.cls = cls /\ call.op = op

\* The trimmed text is one reference: not empty, no comma.
SingleReference(data) == Py_strip(data) # <<>> /\ ~InSeq(",", Py_strip(data))

\* C21: a Type validator whose single reference is the name N of a
\* registered table has the value '<table prefix>N' in quotes, one whose
\* reference is a registered view the value '<view prefix>N' in quotes, and
\* one whose reference is a primitive type has that type name as value.
C21_SingleReferenceCanonical ==
    (MemberRead("Value_Type", "value") /\ SingleReference(call.data.v)) =>
        LET ref == Py_strip(call.data.v)
        IN  /\ InSeq(ref, Value_Type_TABLE_NAMES) =>
                  (call.ok /\ call.value.v = <<"'", "DB_">> \o ref \o <<"'">>)
            /\ InSeq(ref, Value_Type_VIEW_NAMES) =>
                  (call.ok /\ call.value.v = <<"'", "VW_">> \o ref \o <<"'">>)
            /\ (Len(ref) = 1 /\ ref[1] \in TYPES_PYTHON3) =>
                  (call.ok /\ call.value.v = ref)

\* `value` was read on the text `int`.
C21_PrimitiveValueRead ==
    MemberRead("Value_Type", "value") /\ call.data.v = <<"int">>

\* The parts of the text between its commas, trimmed, in order.
ReferenceList(data) ==
    [i \in 1..Len(Py_split(Py_strip(data))) |->
        Py_strip(Py_split(Py_strip(data))[i])]

\* The canonical value of one reference, as `value` gives it for a text of
\* that reference alone on the interpreter the call ran on.
CanonicalReference(ref) == Value_to_string_python3(call.build, ref).value

RECURSIVE CommaJoined(_)
CommaJoined(refs) ==
    IF Len(refs) = 1 THEN CanonicalReference(refs[1])
    ELSE CanonicalReference(refs[1]) \o <<", ">> \o CommaJoined(Tail(refs))

\* C22: the value of a Type validator holding k > 1 comma-separated
\* references is typing.Union[r1, ..., rk] over the canonical references in
\* input order; with one reference the value is not a union expression.
C22_SeveralReferencesUnion ==
    (MemberRead("Value_Type", "value") /\ Py_strip(call.data.v) # <<>>) =>
        LET refs == ReferenceList(call.data.v)
        IN  /\ Len(refs) > 1 =>
                  /\ call.ok
                  /\ call.value.v
                         = <<"typing.Union", "[">> \o CommaJoined(refs) \o <<"]">>
            /\ (Len(refs) = 1 /\ call.ok) =>
                  /\ ~InSeq("[", call.value.v)
                  /\ call.value.v = CommaJoined(refs)

\* `value` returned for a text of two references.
C22_TwoReferencesValueRead ==
    /\ MemberRead("Value_Type", "value")
    /\ call.ok
    /\ Len(ReferenceList(call.data.v)) = 2
    /\ ReferenceList(call.data.v)[1] = <<"int">>

Trimmed(s) ==
    IF \A i \in 1..Len(s) : s[i] = " " THEN <<>>
    ELSE SubSeq(s, CHOOSE i \in 1..Len(s) :
                       s[i] # " " /\ \A j \in 1..(i - 1) : s[j] = " ",
                   CHOOSE i \in 1..Len(s) :
                       s[i] # " " /\ \A j \in (i + 1)..Len(s) : s[j] = " ")

\* The text matches ^[A-Za-z_][A-Za-z0-9_]*$.
IsIdentifier(s) ==
    /\ s # <<>>
    /\ s[1] # "2"
    /\ \A i \in 1..Len(s) : s[i] \in {"a", "2", "_"}

\* C24: the validity check of a Name validator returns a boolean, true iff
\* the trimmed text matches ^[A-Za-z_][A-Za-z0-9_]*$, and the value of the
\* validator is the trimmed text.
C24_NameValidIffIdentifier ==
    (call.done /\ call.cls \in {"Value_Name", "CompValue_Name"}) =>
        /\ call.op = "valid" =>
              /\ call.ok
              /\ call.value.t = "bool"
              /\ call.value.v = IsIdentifier(Trimmed(call.data.v))
        /\ call.op = "value" =>
              /\ call.ok
              /\ call.value.t = "text"
              /\ call.value.v = Trimmed(call.data.v)

\* The validity of a name text that is an identifier between blanks was
\* checked, in the db_model_creator_py package.
C24_PaddedNameChecked ==
    /\ MemberRead("CompValue_Name", "valid")
    /\ call.data.v = <<" ", "a", " ">>

\* The number of period-separated parts of the trimmed text.
FkParts(s) == Cardinality({i \in 1..Len(s) : s[i] = "."}) + 1

\* C25: the validity check of a Foreign-Key validator returns false,
\* without raising, when the trimmed text does not consist of exactly two
\* period-separated parts; with exactly one period it never returns true
\* but raises an undefined-functionality error.
C25_FkShapeChecked ==
    (call.done /\ call.cls \in {"Value_Fk", "CompValue_Fk"}
        /\ call.op = "valid") =>
        /\ FkParts(call.data.v) # 2 =>
              (call.ok /\ call.value.t = "bool" /\ ~call.value.v)
        /\ FkParts(call.data.v) = 2 =>
              /\ ~call.ok
              /\ raised.exc \in {"NotImplementedError", "UndefFuncError"}

\* The validity of a foreign-key text without a period was checked, in the
\* db_model_creator_py package.
C25_FkWithoutPeriodChecked ==
    /\ MemberRead("CompValue_Fk", "valid")
    /\ call.data.v = <<"T", "c">>

(***************************************************************************)
(* Properties of references that do not resolve.                           *)
(***************************************************************************)
\* The text holds a reference that is neither a primitive type nor a
\* registered name.
HasUnresolvedReference(data) ==
    \E ref \in TypeReferences(data) : ref # <<>> /\ ~Resolves(ref)

\* C26: constructing a validator raises nothing whatever its text, and
\* reading `valid` or `value` of a Type validator that holds a reference
\* which is neither a primitive type nor a registered name raises an error.
C26_UnresolvedReferenceRaisedLazily ==
    /\ ~call.done => raised = NoErr
    /\ (/\ call.done
        /\ call.cls = "Value_Type"
        /\ call.op \in {"valid", "value"}
        /\ HasUnresolvedReference(call.data.v)) => ~call.ok

\* `value` was read on the text `Foo`, which names no table and no view.
C26_UnknownReferenceValueRead ==
    /\ MemberRead("Value_Type", "value")
    /\ Py_strip(call.data.v) = <<"Foo">>

(***************************************************************************)
(* Properties of the shared validation context.                            *)
(***************************************************************************)
\* The context CompValue.LoadData leaves when it is called with the fields
\* of the k-th Database.
ContextOf(k) ==
    [lang_db |-> dbs[k]._lang_db, lang_orm |-> dbs[k]._lang_orm,
     tables |-> k, views |-> k]

\* Read() is building the tables and views.
Building == run.pc \in {"SetTables_loop", "SetViews", "SetViews_loop"}

\* C27: the step of a Read() that goes from the language tags and the
\* table sequence to building the first entity leaves the shared context
\* written with the fields of the Database being read, and no step taken
\* while the entities are built writes the context.
C27_ContextWrittenOncePerRun ==
    [][/\ (run.pc = "SetTables" /\ run'.pc = "SetTables_loop")
              => CompValue_static' = ContextOf(run.db)'
       /\ Building => CompValue_static' = CompValue_static]_vars

\* A Read() is about to build its second table and the shared context is
\* as the class body left it.
C27_BuildingOnUnwrittenContext ==
    /\ run.pc = "SetTables_loop"
    /\ run.i = 2
    /\ CompValue_static = CompValue_static_init

(***************************************************************************)
(* Properties of Database(file_name).                                      *)
(***************************************************************************)
\* The text after the last '.' of a file name; a name without a '.' has no
\* extension.
HasExtension(file_name) == Len(file_name) >= 2
Extension(file_name) == file_name[Len(file_name)]

\* C28: Database(file_name) returns an object whose file type is JSON, XML
\* or YAML when the file name has the extension json, xml or yaml, and for
\* every other file name, one without extension included, it raises
\* FileTypeError and there is no object.
C28_ExtensionMapsToFileType ==
    (call.done /\ call.cls = "Database" /\ call.op = "__init__") =>
        LET file_name == call.data.v
        IN  IF HasExtension(file_name) /\ Extension(file_name) \in FileTypeValues
            THEN /\ call.ok
                 /\ Len(dbs) = 1
                 /\ dbs[call.ref]._file_type = Extension(file_name)
            ELSE /\ ~call.ok
                 /\ raised.exc = "FileTypeError"
                 /\ dbs = <<>>

\* Database('json') was called: a file name without a '.'.
C28_NameWithoutPeriodConstructed ==
    /\ call.done
    /\ call.cls = "Database"
    /\ call.op = "__init__"
    /\ call.data.v = <<"json">>

(***************************************************************************)
(* Properties of repeated Read() calls.                                    *)
(***************************************************************************)
\* The database names a document declares under the key, in file order.
DeclaredSeq(data, key, nameKey) ==
    LET x == Get(data, key, PyNone)
    IN  IF x.t # "list" THEN <<>>
        ELSE [i \in 1..Len(x.v) |-> Get(x.v[i], nameKey, PyNone).v]

\* The database names of the entities a list holds, in list order.
HeldNames(h, refs) == [i \in 1..Len(refs) |-> DbName(h, refs[i])]

Occurrences(h, x, items) ==
    Cardinality({i \in 1..Len(items) : items[i] = x \/ Py_eq(h, items[i], x)})

SameOccurrences(h, xs, ys) ==
    \A r \in Range(xs) \cup Range(ys) :
        Occurrences(h, r, xs) = Occurrences(h, r, ys)

\* C30: for Databases A and B, A == B and B == A give the same result, and
\* when A == B every table and every view occurs as often in A as in B.
C30_EqualitySymmetricOnMultisets ==
    \A i \in 1..Len(cmp) :
        ("rev" \in DOMAIN cmp[i]) =>
            /\ cmp[i].res = cmp[i].rev
            /\ cmp[i].res =>
                  /\ SameOccurrences(heap, dbs[cmp[i].a]._tables,
                                  dbs[cmp[i].b]._tables)
                  /\ SameOccurrences(heap, dbs[cmp[i].a]._views,
                                  dbs[cmp[i].b]._views)

\* Two Databases were compared, one holding the same table twice and the
\* other holding two different tables.
C30_RepeatedTableCompared ==
    /\ cmp # <<>>
    /\ "rev" \in DOMAIN cmp[1]
    /\ Len(dbs[cmp[1].a]._tables) = 2
    /\ Cardinality(Range(dbs[cmp[1].a]._tables)) = 1
    /\ Cardinality(Range(dbs[cmp[1].b]._tables)) = 2

(***************************************************************************)
(* Properties of Duplicate() and of equality.                              *)
(***************************************************************************)
\* The comparison evaluated last was d == x for the Duplicate() call k,
\* with nothing changed since the call.
ComparedFreshDup(k) ==
    /\ cmp # <<>>
    /\ ~dups[k].mutated
    /\ cmp[1].a = dups[k].dup
    /\ cmp[1].b = dups[k].orig

\* C8: for every entity, component or validator x, x.Duplicate() succeeds
\* and the duplicate compares equal to x: x.Duplicate() == x is True.
C8_DuplicateEqualsOriginal ==
    \A k \in 1..Len(dups) : ComparedFreshDup(k) => cmp[1].res

\* C8, the case the property is about: a table was duplicated and the
\* untouched duplicate was compared with it.
C8_TableDupCompared ==
    \E k \in 1..Len(dups) :
        /\ ComparedFreshDup(k)
        /\ heap[dups[k].orig].cls = "ORM_Table"

\* C9: a duplicate shares no object with its original (every validator,
\* list and element reachable from the duplicate is new), and changing
\* anything reachable from the duplicate leaves the original's structure
\* as it was when Duplicate() was called.
C9_DuplicateIndependent ==
    \A k \in 1..Len(dups) :
        /\ Reach(heap, dups[k].dup) \cap Reach(heap, dups[k].orig) = {}
        /\ DeepValue(heap, dups[k].orig) = dups[k].snap

\* C9, the case: a table's duplicate was changed in place, so that it no
\* longer has the structure the original had.
C9_TableDupMutated ==
    \E k \in 1..Len(dups) :
        /\ dups[k].mutated
        /\ heap[dups[k].orig].cls = "ORM_Table"
        /\ DeepValue(heap, dups[k].dup) # dups[k].snap

\* The same elements with the same multiplicities, in any order.
SameMultiset(s, t) ==
    /\ Len(s) = Len(t)
    /\ \A x \in Range(s) \cup Range(t) :
          Cardinality({i \in 1..Len(s) : s[i] = x})
              = Cardinality({i \in 1..Len(t) : t[i] = x})

\* Structural equality of two tables or views as documented: same class,
\* same scalar fields, the same columns in the same order, and the same
\* constants, methods and properties in any order.
StructurallyEqual(h, a, b) ==
    /\ DeepScalars(h, a) = DeepScalars(h, b)
    /\ DeepItems(h, h[a]._cols) = DeepItems(h, h[b]._cols)
    /\ SameMultiset(DeepItems(h, h[a]._constants), DeepItems(h, h[b]._constants))
    /\ SameMultiset(DeepItems(h, h[a]._methods), DeepItems(h, h[b]._methods))
    /\ SameMultiset(DeepItems(h, h[a]._props), DeepItems(h, h[b]._props))

\* C10: == on two tables or views is structural: it is True exactly when
\* they have the same class and scalar fields, the same columns in the same
\* order, and the same constants, methods and properties in any order.
C10_EqualityStructural ==
    (/\ cmp # <<>>
     /\ IsORM_TV(heap, cmp[1].a)
     /\ IsORM_TV(heap, cmp[1].b))
        => (cmp[1].res <=> StructurallyEqual(heap, cmp[1].a, cmp[1].b))

\* C10, the case: two separately constructed tables that differ only in
\* the order of their constants were compared.
C10_ConstantsOrderCompared ==
    /\ cmp # <<>>
    /\ cmp[1].a # cmp[1].b
    /\ heap[cmp[1].a].cls = "ORM_Table"
    /\ heap[cmp[1].b].cls = "ORM_Table"
    /\ StructurallyEqual(heap, cmp[1].a, cmp[1].b)
    /\ DeepValue(heap, heap[cmp[1].a]._constants)
           # DeepValue(heap, heap[cmp[1].b]._constants)

=============================================================================
